---------------------------- MODULE Spec2Model ----------------------------
(***************************************************************************)
(* A model of the s2-pmtiles archive library: the S2PMTilesWriter          *)
(* (writeTileXYZ / writeTileS2 / writeTile / commit over a BufferWriter),  *)
(* the S2PMTilesReader (prelude load, directory walk, DirCache), and the   *)
(* codecs they share (varint, directory, header, Hilbert tile IDs).        *)
(*                                                                         *)
(* Byte strings are kept run-length encoded: a sequence of runs            *)
(* [b |-> byte, n |-> count], n > 0, no two neighbouring runs with the     *)
(* same byte.  The 98304-byte prelude and a large metadata blob are then   *)
(* a handful of runs, while every byte of the file keeps its position.     *)
(***************************************************************************)
EXTENDS Integers, Sequences, FiniteSets, TLC

(***************************************************************************)
(* Program constants.                                                      *)
(***************************************************************************)
HEADER_SIZE_BYTES == 127
ROOT_SIZE == 16384
S2_HEADER_SIZE_BYTES == 262
S2_ROOT_SIZE == 98304
INITIAL_LEAF_SIZE == 4096
MAX_ZOOM == 26
INITIAL_MIN_ZOOM == 30
MAX_DEPTH == 3
DEFAULT_MAX_SIZE == 20

CompressionUnknown == 0
CompressionNone == 1
CompressionGzip == 2
CompressionBrotli == 3
CompressionZstd == 4

TileTypePbf == 1

\* the value JavaScript calls undefined (a read past the end of an array,
\* a header that is not loaded, a tile that is not in the archive)
Undefined == -1
\* an undefined header, and an undefined range
UndefinedHeader == [undefined |-> TRUE]
NoRange == << >>

Pow2(k) == 2 ^ k

\* The 32-bit words of a 64-bit value.  The model checker's integers stay
\* below 2^31, so the high word of every value the model handles is 0.
Hi32(v) == (v \div 65536) \div 65536
Lo32(v) == IF Hi32(v) = 0 THEN v ELSE v - Hi32(v) * 65536 * 65536
FromWords(low, high) == IF high = 0 THEN low ELSE high * 65536 * 65536 + low

Min(a, b) == IF a < b THEN a ELSE b
Max(a, b) == IF a > b THEN a ELSE b

(***************************************************************************)
(* Run-length encoded byte strings.                                        *)
(***************************************************************************)
BEmpty == << >>

BFill(n, b) == IF n > 0 THEN << [b |-> b, n |-> n] >> ELSE << >>

RECURSIVE BLen(_)
BLen(r) ==
    IF r = << >> THEN 0
    ELSE IF Len(r) = 1 THEN r[1].n
    ELSE LET h == Len(r) \div 2
         IN BLen(SubSeq(r, 1, h)) + BLen(SubSeq(r, h + 1, Len(r)))

\* concatenation, merging the two runs that meet when they hold the same byte
BCat(r1, r2) ==
    IF r1 = << >> THEN r2
    ELSE IF r2 = << >> THEN r1
    ELSE IF r1[Len(r1)].b = r2[1].b
         THEN SubSeq(r1, 1, Len(r1) - 1)
              \o << [b |-> r2[1].b, n |-> r1[Len(r1)].n + r2[1].n] >>
              \o Tail(r2)
         ELSE r1 \o r2

RECURSIVE BFromSeq(_)
BFromSeq(s) ==
    IF s = << >> THEN << >>
    ELSE IF Len(s) = 1 THEN << [b |-> s[1], n |-> 1] >>
    ELSE LET h == Len(s) \div 2
         IN BCat(BFromSeq(SubSeq(s, 1, h)), BFromSeq(SubSeq(s, h + 1, Len(s))))

RECURSIVE BToSeq(_)
BToSeq(r) ==
    IF r = << >> THEN << >>
    ELSE IF Len(r) = 1 THEN [i \in 1..r[1].n |-> r[1].b]
    ELSE LET h == Len(r) \div 2
         IN BToSeq(SubSeq(r, 1, h)) \o BToSeq(SubSeq(r, h + 1, Len(r)))

\* the first k bytes of r (all of r when k >= BLen(r))
RECURSIVE BTake(_, _)
BTake(r, k) ==
    IF k <= 0 \/ r = << >> THEN << >>
    ELSE IF Len(r) = 1 THEN << [b |-> r[1].b, n |-> Min(k, r[1].n)] >>
    ELSE LET h == Len(r) \div 2
             left == SubSeq(r, 1, h)
             ll == BLen(left)
         IN IF k <= ll THEN BTake(left, k)
            ELSE left \o BTake(SubSeq(r, h + 1, Len(r)), k - ll)

\* r without its first k bytes
RECURSIVE BDrop(_, _)
BDrop(r, k) ==
    IF r = << >> THEN << >>
    ELSE IF k <= 0 THEN r
    ELSE IF Len(r) = 1 THEN BFill(r[1].n - k, r[1].b)
    ELSE LET h == Len(r) \div 2
             left == SubSeq(r, 1, h)
             right == SubSeq(r, h + 1, Len(r))
             ll == BLen(left)
         IN IF k < ll THEN BDrop(left, k) \o right ELSE BDrop(right, k - ll)

\* Uint8Array.prototype.slice(from, to) for 0 <= from: clamps to the length
BSlice(r, from, to) == IF to <= from THEN << >> ELSE BTake(BDrop(r, from), to - from)

\* the byte at 0-based position i, Undefined past the end
RECURSIVE BAt(_, _)
BAt(r, i) ==
    IF r = << >> \/ i < 0 THEN Undefined
    ELSE IF Len(r) = 1 THEN IF i < r[1].n THEN r[1].b ELSE Undefined
    ELSE LET h == Len(r) \div 2
             left == SubSeq(r, 1, h)
             ll == BLen(left)
         IN IF i < ll THEN BAt(left, i) ELSE BAt(SubSeq(r, h + 1, Len(r)), i - ll)


(***************************************************************************)
(* BufferWriter: the in-memory byte sink.                                  *)
(***************************************************************************)
\* appendSync(data), and append(data) once all its pushes are done
BufferAppend(buf, data) == BCat(buf, data)

\* one push of append's loop: the byte data[i] goes to the end of the buffer
BufferPush(buf, data, i) == BCat(buf, BFill(1, BAt(data, i)))

\* write(data, offset): buffer[offset + i] = data[i]; an index past the end
\* extends the array (holes read as 0 once copied into a Uint8Array)
BufferWrite(buf, data, offset) ==
    LET padded == IF BLen(buf) < offset
                  THEN BCat(buf, BFill(offset - BLen(buf), 0)) ELSE buf
    IN BCat(BCat(BTake(padded, offset), data), BDrop(padded, offset + BLen(data)))

(***************************************************************************)
(* Varint codec.  Byte strings handled by the codecs are plain sequences.  *)
(***************************************************************************)
\* a writeBigVarintHigh that shifts before it masks: every byte holds the
\* seven bits above the ones it should hold
RECURSIVE HighRestShiftedFirst(_, _)
HighRestShiftedFirst(high, k) ==
    IF k = 0 THEN << high % 128 >>
    ELSE LET next == high \div 128
         IN IF next = 0 THEN << 0 >>
            ELSE << (next % 128) + 128 >> \o HighRestShiftedFirst(next, k - 1)

\* writeBigVarintHigh after its first byte: up to four bytes with a
\* continuation flag, then a last byte high & 0x7f
RECURSIVE BigVarintHighRest(_, _)
BigVarintHighRest(high, k) ==
    IF k = 0 THEN << high % 128 >>
    ELSE LET next == high \div 128
         IN IF next = 0 THEN << high % 128 >>
            ELSE << (high % 128) + 128 >> \o BigVarintHighRest(next, k - 1)

\* v >>> 7, k times
RECURSIVE Shift7(_, _)
Shift7(v, k) == IF k = 0 THEN v ELSE Shift7(v \div 128, k - 1)

\* writeBigVarint for val < 0: low and high are the words of the 64-bit two's
\* complement of val, the complement of -val - 1; nine 7-bit groups with the
\* continuation flag, then bit 63
WriteNegativeVarint(val) ==
    [k \in 1..9 |-> (127 - (Shift7(-val - 1, k - 1) % 128)) + 128] \o << 1 >>

\* writeBigVarintLow and writeBigVarintHigh over the words of the value: the
\* low word is held as its bits 0..27 (low28) and its bits 28..31 (top), so
\* that every 32-bit low word is within the model checker's integers; four
\* 7-bit groups of the low word, then its top 4 bits with bits 0..2 of the
\* high word, then the rest of the high word
WriteBigVarintWords(low28, top, high) ==
    LET rest == high \div 8
    IN << (low28 % 128) + 128,
          ((low28 \div Pow2(7)) % 128) + 128,
          ((low28 \div Pow2(14)) % 128) + 128,
          ((low28 \div Pow2(21)) % 128) + 128,
          top + (high % 8) * 16 + (IF rest # 0 THEN 128 ELSE 0) >>
       \o (IF rest = 0 THEN << >> ELSE BigVarintHighRest(rest, 4))

\* writeBigVarint for val < 0 or val >= 2^28: low = val % 0x100000000 | 0,
\* high = (val / 0x100000000) | 0
WriteBigVarint(val) ==
    IF val < 0 THEN WriteNegativeVarint(val)
    ELSE WriteBigVarintWords(Lo32(val) % Pow2(28), Lo32(val) \div Pow2(28), Hi32(val))

WriteVarint(val) ==
    IF val > 268435455 \/ val < 0 THEN WriteBigVarint(val)
    ELSE LET v1 == val \div 128
             v2 == v1 \div 128
         IN IF val <= 127 THEN << val >>
            ELSE IF v1 <= 127 THEN << (val % 128) + 128, v1 >>
            ELSE IF v2 <= 127 THEN << (val % 128) + 128, (v1 % 128) + 128, v2 >>
            ELSE << (val % 128) + 128, (v1 % 128) + 128, (v2 % 128) + 128,
                    (v2 \div 128) % 128 >>

\* writeVarint of the value high * 2^32 + top * 2^28 + low28: val > 0xfffffff
\* exactly when a bit from 28 on is set
WriteVarintWords(low28, top, high) ==
    IF top # 0 \/ high # 0 THEN WriteBigVarintWords(low28, top, high)
    ELSE WriteVarint(low28)

\* buf[pos] of a Uint8Array held as a sequence: Undefined past the end
ByteAt(buf, pos) == IF pos >= 0 /\ pos < Len(buf) THEN buf[pos + 1] ELSE Undefined

\* b & mask for mask = 2^k - 1; undefined & mask is 0
AndMask(b, k) == IF b = Undefined THEN 0 ELSE b % Pow2(k)

\* b < 0x80; undefined < 0x80 is false
IsLastByte(b) == b # Undefined /\ b < 128

\* readVarintRemainder: the high word h, from bits 4..6 of the fifth byte on;
\* toNum(low, h) is applied by the caller
ReadVarintRemainder(buf, pos) ==
    LET b4 == ByteAt(buf, pos)
        b5 == ByteAt(buf, pos + 1)
        b6 == ByteAt(buf, pos + 2)
        b7 == ByteAt(buf, pos + 3)
        b8 == ByteAt(buf, pos + 4)
        b9 == ByteAt(buf, pos + 5)
        h4 == (AndMask(b4, 7) \div 16)
        h5 == h4 + AndMask(b5, 7) * Pow2(3)
        h6 == h5 + AndMask(b6, 7) * Pow2(10)
        h7 == h6 + AndMask(b7, 7) * Pow2(17)
        h8 == h7 + AndMask(b8, 7) * Pow2(24)
        h9 == h8 + AndMask(b9, 1) * Pow2(31)
    IN IF IsLastByte(b4) THEN [ok |-> TRUE, high |-> h4, pos |-> pos + 1]
       ELSE IF IsLastByte(b5) THEN [ok |-> TRUE, high |-> h5, pos |-> pos + 2]
       ELSE IF IsLastByte(b6) THEN [ok |-> TRUE, high |-> h6, pos |-> pos + 3]
       ELSE IF IsLastByte(b7) THEN [ok |-> TRUE, high |-> h7, pos |-> pos + 4]
       ELSE IF IsLastByte(b8) THEN [ok |-> TRUE, high |-> h8, pos |-> pos + 5]
       ELSE IF IsLastByte(b9) THEN [ok |-> TRUE, high |-> h9, pos |-> pos + 6]
       ELSE [ok |-> FALSE, high |-> 0, pos |-> pos + 6]

VarintWords(low28, top, high, pos) ==
    [ok |-> TRUE, low28 |-> low28, top |-> top, high |-> high, pos |-> pos]

\* readVarint with readVarintRemainder behind it
ReadVarintTail(low28, top, rem) ==
    [ok |-> rem.ok, low28 |-> low28, top |-> top, high |-> rem.high, pos |-> rem.pos]

\* readVarint at position pos, the value as words: ok = FALSE for 'Expected
\* varint not more than 10 bytes'
ReadVarintWords(buf, pos) ==
    LET b0 == ByteAt(buf, pos)
        b1 == ByteAt(buf, pos + 1)
        b2 == ByteAt(buf, pos + 2)
        b3 == ByteAt(buf, pos + 3)
        b4 == ByteAt(buf, pos + 4)
        v0 == AndMask(b0, 7)
        v1 == v0 + AndMask(b1, 7) * Pow2(7)
        v2 == v1 + AndMask(b2, 7) * Pow2(14)
        v3 == v2 + AndMask(b3, 7) * Pow2(21)
    IN IF IsLastByte(b0) THEN VarintWords(v0, 0, 0, pos + 1)
       ELSE IF IsLastByte(b1) THEN VarintWords(v1, 0, 0, pos + 2)
       ELSE IF IsLastByte(b2) THEN VarintWords(v2, 0, 0, pos + 3)
       ELSE IF IsLastByte(b3) THEN VarintWords(v3, 0, 0, pos + 4)
       ELSE ReadVarintTail(v3, AndMask(b4, 4), ReadVarintRemainder(buf, pos + 4))

\* toNum(low, high), 0 where the read threw
toNum(w) ==
    [ok |-> w.ok,
     val |-> IF w.ok THEN FromWords(w.top * Pow2(28) + w.low28, w.high) ELSE 0,
     pos |-> w.pos]

\* readVarint at position pos: the value, the position after it, and ok =
\* FALSE for 'Expected varint not more than 10 bytes'
ReadVarint(buf, pos) == toNum(ReadVarintWords(buf, pos))

(***************************************************************************)
(* Directory codec.                                                        *)
(***************************************************************************)
Entry(tileID, offset, length, runLength) ==
    [tileID |-> tileID, offset |-> offset, length |-> length, runLength |-> runLength]

\* ss[lo] \o ... \o ss[hi], halved so that long lists stay shallow
RECURSIVE ConcatRange(_, _, _)
ConcatRange(ss, lo, hi) ==
    IF lo > hi THEN << >>
    ELSE IF lo = hi THEN ss[lo]
    ELSE ConcatRange(ss, lo, (lo + hi) \div 2) \o ConcatRange(ss, (lo + hi) \div 2 + 1, hi)

ConcatAll(ss) == ConcatRange(ss, 1, Len(ss))

\* serializeDir before compression: count, tile ID deltas, run lengths,
\* lengths, offsets + 1, each a varint
SerializeDir(entries) ==
    LET n == Len(entries)
        delta(i) == entries[i].tileID - (IF i = 1 THEN 0 ELSE entries[i - 1].tileID)
    IN WriteVarint(n)
       \o ConcatAll([i \in 1..n |-> WriteVarint(delta(i))])
       \o ConcatAll([i \in 1..n |-> WriteVarint(entries[i].runLength)])
       \o ConcatAll([i \in 1..n |-> WriteVarint(entries[i].length)])
       \o ConcatAll([i \in 1..n |-> WriteVarint(entries[i].offset + 1)])

\* k varints read one after the other from position pos: ok = FALSE as soon
\* as one read throws
RECURSIVE ReadVarints(_, _, _)
RECURSIVE ReadVarintsAfter(_, _, _)
PrependVarint(r, rest) ==
    [ok |-> rest.ok, vals |-> << r.val >> \o rest.vals, pos |-> rest.pos]

ReadVarintsAfter(buf, r, k) ==
    IF ~r.ok THEN [ok |-> FALSE, vals |-> << >>, pos |-> r.pos]
    ELSE PrependVarint(r, ReadVarints(buf, r.pos, k - 1))

ReadVarints(buf, pos, k) ==
    IF k = 0 THEN [ok |-> TRUE, vals |-> << >>, pos |-> pos]
    ELSE ReadVarintsAfter(buf, ReadVarint(buf, pos), k)

RECURSIVE SumTo(_, _)
SumTo(vals, i) == IF i = 0 THEN 0 ELSE vals[i] + SumTo(vals, i - 1)

\* the offsets column: 0 (after the first entry) means "right after the
\* previous entry", any other value v means offset v - 1
RECURSIVE DecodeOffsets(_, _, _)
NextOffset(vals, lengths, i, prev) ==
    Append(prev, IF vals[i] = 0 /\ i > 1 THEN prev[i - 1] + lengths[i - 1]
                 ELSE vals[i] - 1)

\* a decoder that takes the value read for the offset itself
OffsetsAsRead(vals, lengths, i) == SubSeq(vals, 1, i)

DecodeOffsets(vals, lengths, i) ==
    IF i = 0 THEN << >>
    ELSE NextOffset(vals, lengths, i, DecodeOffsets(vals, lengths, i - 1))

\* the entries of n decoded columns: tile ID deltas, run lengths, lengths,
\* offsets
DirEntries(n, ids, runs, lens, offsets) ==
    [i \in 1..n |-> Entry(SumTo(ids, i), offsets[i], lens[i], runs[i])]

\* deserializeDir after the entry count n: the four loops read 4 * n varints
\* one after the other, a column of n values per loop
DirColumns(n, cols) ==
    IF ~cols.ok THEN [ok |-> FALSE, entries |-> << >>]
    ELSE [ok |-> TRUE,
          entries |-> DirEntries(n, SubSeq(cols.vals, 1, n),
                                 SubSeq(cols.vals, n + 1, 2 * n),
                                 SubSeq(cols.vals, 2 * n + 1, 3 * n),
                                 DecodeOffsets(SubSeq(cols.vals, 3 * n + 1, 4 * n),
                                               SubSeq(cols.vals, 2 * n + 1, 3 * n), n))]

DirAfterCount(buf, cnt) ==
    IF ~cnt.ok THEN [ok |-> FALSE, entries |-> << >>]
    ELSE DirColumns(cnt.val, ReadVarints(buf, cnt.pos, 4 * cnt.val))

\* deserializeDir: ok = FALSE when a varint read throws
DeserializeDir(buf) == DirAfterCount(buf, ReadVarint(buf, 0))


(***************************************************************************)
(* Compression.  Uint8Arrays that travel through the sink and the range    *)
(* provider are run-length encoded byte strings.  Gzip itself is an        *)
(* external codec: it is modelled as a lossless framing that puts the two  *)
(* gzip magic bytes in front of the input.                                 *)
(***************************************************************************)
GzipMagic == BCat(BFill(1, 31), BFill(1, 139))

compressGzip(input) == BCat(GzipMagic, input)

\* ok = FALSE when the input is no gzip stream
decompressGzip(bytes) ==
    IF BSlice(bytes, 0, 2) = GzipMagic
    THEN [ok |-> TRUE, data |-> BDrop(bytes, 2)]
    ELSE [ok |-> FALSE, data |-> BEmpty]

\* the writer's compress: None is the identity, Gzip compresses,
\* any other tag throws 'Unsupported compression'
compress(input, compression) ==
    IF compression = CompressionNone THEN [ok |-> TRUE, data |-> input]
    ELSE IF compression = CompressionGzip THEN [ok |-> TRUE, data |-> compressGzip(input)]
    ELSE [ok |-> FALSE, data |-> BEmpty]

\* the reader's decompress: Gzip decompresses, Brotli and Zstd throw,
\* None and every other tag (the default branch) return the input
decompress(data, compression) ==
    IF compression = CompressionGzip THEN decompressGzip(data)
    ELSE IF compression = CompressionBrotli \/ compression = CompressionZstd
         THEN [ok |-> FALSE, data |-> BEmpty]
    ELSE [ok |-> TRUE, data |-> data]

(***************************************************************************)
(* Metadata.  The JSON shape of the metadata is outside the library; a     *)
(* metadata value is modelled as a JSON string of m letters x, m >= 0, so  *)
(* that JSON.stringify gives the m + 2 bytes "xx...x" (with the quotes).   *)
(***************************************************************************)
JsonStringify(m) == BCat(BCat(BFill(1, 34), BFill(m, 120)), BFill(1, 34))

\* JSON.parse of the decoded text: ok = FALSE for a SyntaxError
JsonParse(bytes) ==
    LET len == BLen(bytes)
    IN IF len >= 2 /\ bytes = JsonStringify(len - 2)
       THEN [ok |-> TRUE, value |-> len - 2]
       ELSE [ok |-> FALSE, value |-> Undefined]

(***************************************************************************)
(* Header codec.                                                           *)
(***************************************************************************)
U32LE(w) == << w % 256, (w \div 256) % 256, (w \div 65536) % 256, (w \div 16777216) % 256 >>

\* A 64-bit value as words: low28 and top are bits 0..27 and 28..31 of the
\* low word, high is the high word, so that every low word of 32 bits is
\* within the model checker's integers.
Word64(low28, top, high) == [low28 |-> low28, top |-> top, high |-> high]
WordsOf(value) == Word64(Lo32(value) % Pow2(28), Lo32(value) \div Pow2(28), Hi32(value))
NumberOf(w) == FromWords(w.top * Pow2(28) + w.low28, w.high)

\* a setUint64 that writes the high word at offset and the low word at
\* offset + 4 (the two lines left as a comment in the source)
setUint64HighFirst(w) ==
    U32LE(w.high)
    \o << w.low28 % 256, (w.low28 \div 256) % 256, (w.low28 \div 65536) % 256,
          (w.low28 \div 16777216) + w.top * 16 >>

\* setUint64 on words: wl = value >>> 0 at offset, wh = floor(value / 2^32)
\* at offset + 4, both little endian
setUint64Words(w) ==
    << w.low28 % 256, (w.low28 \div 256) % 256, (w.low28 \div 65536) % 256,
       (w.low28 \div 16777216) + w.top * 16 >>
    \o U32LE(w.high)

\* getUint64 on words, at a 0-based offset of a byte sequence
getUint64Words(bytes, offset) ==
    LET b(i) == bytes[offset + i + 1]
    IN Word64(b(0) + b(1) * 256 + b(2) * 65536 + (b(3) % 16) * 16777216,
              b(3) \div 16,
              b(4) + b(5) * 256 + b(6) * 65536 + b(7) * 16777216)

setUint64(value) == setUint64Words(WordsOf(value))

\* getUint64 at a 0-based offset of a byte sequence
getUint64(bytes, offset) == NumberOf(getUint64Words(bytes, offset))

Zeros(n) == [i \in 1..n |-> 0]

\* headerToBytes with the 64-bit fields written by Set: 127 bytes, magic "PM"
\* (0x4d50 little endian)
HeaderBytes(header, Set(_)) ==
    << 80, 77 >> \o Zeros(5) \o << header.specVersion % 256 >>
    \o Set(header.rootDirectoryOffset)
    \o Set(header.rootDirectoryLength)
    \o Set(header.jsonMetadataOffset)
    \o Set(header.jsonMetadataLength)
    \o Set(header.leafDirectoryOffset)
    \o Set(header.leafDirectoryLength)
    \o Set(header.tileDataOffset)
    \o Set(header.tileDataLength)
    \o Set(header.numAddressedTiles)
    \o Set(header.numTileEntries)
    \o Set(header.numTileContents)
    \o << IF header.clustered THEN 1 ELSE 0,
          header.internalCompression % 256,
          header.tileCompression % 256,
          header.tileType % 256,
          header.minZoom % 256,
          header.maxZoom % 256 >>
    \o Zeros(HEADER_SIZE_BYTES - 102)

\* headerToBytes: 127 bytes, magic "PM" (0x4d50 little endian)
headerToBytes(header) == HeaderBytes(header, setUint64)

\* bytesToHeader with the 64-bit fields read by Get; the magic number is not
\* checked (the check is commented out)
HeaderOfBytes(bytes, Get(_, _)) ==
    [specVersion |-> bytes[8],
     rootDirectoryOffset |-> Get(bytes, 8),
     rootDirectoryLength |-> Get(bytes, 16),
     jsonMetadataOffset |-> Get(bytes, 24),
     jsonMetadataLength |-> Get(bytes, 32),
     leafDirectoryOffset |-> Get(bytes, 40),
     leafDirectoryLength |-> Get(bytes, 48),
     tileDataOffset |-> Get(bytes, 56),
     tileDataLength |-> Get(bytes, 64),
     numAddressedTiles |-> Get(bytes, 72),
     numTileEntries |-> Get(bytes, 80),
     numTileContents |-> Get(bytes, 88),
     clustered |-> (bytes[97] = 1),
     internalCompression |-> bytes[98],
     tileCompression |-> bytes[99],
     tileType |-> bytes[100],
     minZoom |-> bytes[101],
     maxZoom |-> bytes[102]]

\* bytesToHeader; the magic number is not checked (the check is commented out)
bytesToHeader(bytes) == HeaderOfBytes(bytes, getUint64)

\* the fields of faces 1..5 with the leaf pairs ahead of the root pairs
S2FieldsLeavesFirst(h) ==
    << h.leafDirectoryOffset1, h.leafDirectoryLength1,
       h.leafDirectoryOffset2, h.leafDirectoryLength2,
       h.leafDirectoryOffset3, h.leafDirectoryLength3,
       h.leafDirectoryOffset4, h.leafDirectoryLength4,
       h.leafDirectoryOffset5, h.leafDirectoryLength5,
       h.rootDirectoryOffset1, h.rootDirectoryLength1,
       h.rootDirectoryOffset2, h.rootDirectoryLength2,
       h.rootDirectoryOffset3, h.rootDirectoryLength3,
       h.rootDirectoryOffset4, h.rootDirectoryLength4,
       h.rootDirectoryOffset5, h.rootDirectoryLength5 >>

\* the record fields rootDirectoryOffset1 .. leafDirectoryLength5, in wire order
S2Fields(h) ==
    << h.rootDirectoryOffset1, h.rootDirectoryLength1,
       h.rootDirectoryOffset2, h.rootDirectoryLength2,
       h.rootDirectoryOffset3, h.rootDirectoryLength3,
       h.rootDirectoryOffset4, h.rootDirectoryLength4,
       h.rootDirectoryOffset5, h.rootDirectoryLength5,
       h.leafDirectoryOffset1, h.leafDirectoryLength1,
       h.leafDirectoryOffset2, h.leafDirectoryLength2,
       h.leafDirectoryOffset3, h.leafDirectoryLength3,
       h.leafDirectoryOffset4, h.leafDirectoryLength4,
       h.leafDirectoryOffset5, h.leafDirectoryLength5 >>

\* s2HeaderToBytes: the planar image with magic "S2" and version byte 1,
\* then the twenty 64-bit fields from offset 102 on; 262 bytes
S2HeaderBytes(header, Set(_)) ==
    LET defaultHeader == HeaderBytes(header, Set)
        base == defaultHeader \o Zeros(S2_HEADER_SIZE_BYTES - HEADER_SIZE_BYTES)
    IN << 83, 50 >> \o SubSeq(base, 3, 7) \o << 1 >> \o SubSeq(base, 9, 102)
       \o ConcatAll([i \in 1..20 |-> Set(S2Fields(header)[i])])

\* s2HeaderToBytes: 262 bytes
s2HeaderToBytes(header) == S2HeaderBytes(header, setUint64)

\* s2BytesToHeader with the 64-bit fields read by Get
S2HeaderOfBytes(bytes, Get(_, _)) ==
    HeaderOfBytes(bytes, Get) @@
    [rootDirectoryOffset1 |-> Get(bytes, 102),
     rootDirectoryLength1 |-> Get(bytes, 110),
     rootDirectoryOffset2 |-> Get(bytes, 118),
     rootDirectoryLength2 |-> Get(bytes, 126),
     rootDirectoryOffset3 |-> Get(bytes, 134),
     rootDirectoryLength3 |-> Get(bytes, 142),
     rootDirectoryOffset4 |-> Get(bytes, 150),
     rootDirectoryLength4 |-> Get(bytes, 158),
     rootDirectoryOffset5 |-> Get(bytes, 166),
     rootDirectoryLength5 |-> Get(bytes, 174),
     leafDirectoryOffset1 |-> Get(bytes, 182),
     leafDirectoryLength1 |-> Get(bytes, 190),
     leafDirectoryOffset2 |-> Get(bytes, 198),
     leafDirectoryLength2 |-> Get(bytes, 206),
     leafDirectoryOffset3 |-> Get(bytes, 214),
     leafDirectoryLength3 |-> Get(bytes, 222),
     leafDirectoryOffset4 |-> Get(bytes, 230),
     leafDirectoryLength4 |-> Get(bytes, 238),
     leafDirectoryOffset5 |-> Get(bytes, 246),
     leafDirectoryLength5 |-> Get(bytes, 254)]

s2BytesToHeader(bytes) == S2HeaderOfBytes(bytes, getUint64)

(***************************************************************************)
(* Tile IDs.                                                               *)
(***************************************************************************)
\* tzValues[zoom], the number of tiles above zoom.  The source's table goes
\* to zoom 26; the entries of zooms 16..26 exceed 2^31 and are left out, so
\* the model computes tile IDs for zooms 0..15 only.
tzValues ==
    << 0, 1, 5, 21, 85, 341, 1365, 5461, 21845, 87381, 349525, 1398101, 5592405,
       22369621, 89478485, 357913941 >>

\* rotate(n, xy, rx, ry) on the pair xy = <<x, y>>
rotate(n, xy, rx, ry) ==
    IF ry = 0
    THEN LET p == IF rx = 1 THEN << n - 1 - xy[1], n - 1 - xy[2] >> ELSE xy
         IN << p[2], p[1] >>
    ELSE xy

\* (v & s) > 0 ? 1 : 0 for a power of two s; v may be negative (two's complement)
BitOf(v, s) == (v \div s) % 2

\* a loop that adds 3 * rx + ry where the source takes (3 * rx) ^ ry
RECURSIVE HilbertDSum(_, _)
HilbertDSum(s, xy) ==
    IF s < 1 THEN 0
    ELSE LET rx == BitOf(xy[1], s)
             ry == BitOf(xy[2], s)
         IN s * s * (3 * rx + ry) + HilbertDSum(s \div 2, rotate(s, xy, rx, ry))

\* the loop of zxyToTileID from s down to 1.  (In the source s is halved until
\* it underflows to 0; the rounds with s < 1 test v & 0, add 0 to d and only
\* swap xy, which is not read again.)
RECURSIVE HilbertD(_, _)
HilbertD(s, xy) ==
    IF s < 1 THEN 0
    ELSE LET rx == BitOf(xy[1], s)
             ry == BitOf(xy[2], s)
             xor == IF rx = 1 THEN 3 - ry ELSE ry
         IN s * s * xor + HilbertD(s \div 2, rotate(s, xy, rx, ry))

\* zxyToTileID: ok = FALSE when it throws
zxyToTileID(zoom, x, y) ==
    IF zoom > MAX_ZOOM THEN [ok |-> FALSE, id |-> Undefined]
    ELSE IF x > Pow2(zoom) - 1 \/ y > Pow2(zoom) - 1 THEN [ok |-> FALSE, id |-> Undefined]
    ELSE [ok |-> TRUE, id |-> tzValues[zoom + 1] + HilbertD(Pow2(zoom) \div 2, << x, y >>)]

\* findTile: the 1-based index of the entry found, 0 for null
RECURSIVE FindTileLoop(_, _, _, _)
FindTileLoop(entries, tileID, m, n) ==
    IF m <= n
    THEN LET k == (n + m) \div 2
             cmp == tileID - entries[k + 1].tileID
         IN IF cmp > 0 THEN FindTileLoop(entries, tileID, k + 1, n)
            ELSE IF cmp < 0 THEN FindTileLoop(entries, tileID, m, k - 1)
            ELSE k + 1
    ELSE IF n >= 0
         THEN IF entries[n + 1].runLength = 0 THEN n + 1
              ELSE IF tileID - entries[n + 1].tileID < entries[n + 1].runLength THEN n + 1
              ELSE 0
         ELSE 0

\* a search that starts with n = entries.length - 2: the last entry is
\* never looked at
FindTileShort(entries, tileID) == FindTileLoop(entries, tileID, 0, Len(entries) - 2)

findTile(entries, tileID) == FindTileLoop(entries, tileID, 0, Len(entries) - 1)


(***************************************************************************)
(* Directory planning at commit.                                           *)
(***************************************************************************)
\* entries.sort((a, b) => a.tileID - b.tileID): a stable sort by tile ID
RECURSIVE InsertSorted(_, _)
InsertSorted(sorted, e) ==
    IF sorted = << >> THEN << e >>
    ELSE IF sorted[Len(sorted)].tileID <= e.tileID THEN Append(sorted, e)
    ELSE Append(InsertSorted(SubSeq(sorted, 1, Len(sorted) - 1), e), sorted[Len(sorted)])

RECURSIVE SortEntries(_)
SortEntries(entries) ==
    IF entries = << >> THEN << >>
    ELSE InsertSorted(SortEntries(SubSeq(entries, 1, Len(entries) - 1)),
                      entries[Len(entries)])

\* compress(serializeDir(entries), compression)
CompressedDir(entries, compression) == compress(BFromSeq(SerializeDir(entries)), compression)

\* the while loop of buildRootsLeaves from 0-based index i on: the root
\* entries and the leaf block built so far are the accumulators
RECURSIVE BuildLoop(_, _, _, _, _, _, _)
BuildLoop(entries, leafSize, compression, i, rootEntries, leavesBytes, numLeaves) ==
    IF i < Len(entries)
    THEN LET serialized ==
                 CompressedDir(SubSeq(entries, i + 1, Min(i + leafSize, Len(entries))),
                               compression).data
         IN BuildLoop(entries, leafSize, compression, i + leafSize,
                      Append(rootEntries,
                             Entry(entries[i + 1].tileID, BLen(leavesBytes),
                                   BLen(serialized), 0)),
                      BCat(leavesBytes, serialized), numLeaves + 1)
    ELSE [rootBytes |-> CompressedDir(rootEntries, compression).data,
          leavesBytes |-> leavesBytes,
          numLeaves |-> numLeaves,
          rootEntries |-> rootEntries]

\* a build whose leaf pointers all carry the offset 0
LeavesAllAtZero(entries, leafSize, compression) ==
    LET build == BuildLoop(entries, leafSize, compression, 0, << >>, BEmpty, 0)
        atZero == [i \in DOMAIN build.rootEntries |->
                      [build.rootEntries[i] EXCEPT !.offset = 0]]
    IN [build EXCEPT !.rootEntries = atZero,
                     !.rootBytes = CompressedDir(atZero, compression).data]

buildRootsLeaves(entries, leafSize, compression) ==
    BuildLoop(entries, leafSize, compression, 0, << >>, BEmpty, 0)

\* the doubling loop of optimizeDirectories.  A leaf size that already covers
\* all entries gives the same build at every further doubling, so a build that
\* fails there fails forever: done = FALSE stands for the loop that never ends.
RECURSIVE OptimizeLoop(_, _, _, _)
OptimizeLoop(entries, targetRootLength, compression, leafSize) ==
    LET build == buildRootsLeaves(entries, leafSize, compression)
    IN IF BLen(build.rootBytes) < targetRootLength
       THEN [done |-> TRUE, rootBytes |-> build.rootBytes,
             leavesBytes |-> build.leavesBytes, numLeaves |-> build.numLeaves,
             leafSize |-> leafSize]
       ELSE IF leafSize >= Len(entries)
            THEN [done |-> FALSE, rootBytes |-> BEmpty, leavesBytes |-> BEmpty,
                  numLeaves |-> 0, leafSize |-> leafSize]
       ELSE OptimizeLoop(entries, targetRootLength, compression, leafSize * 2)

\* a planner that never splits, whatever the target
NeverSplit(entries, targetRootLength, compression) ==
    [done |-> TRUE, rootBytes |-> CompressedDir(entries, compression).data,
     leavesBytes |-> BEmpty, numLeaves |-> 0, leafSize |-> 0]

optimizeDirectories(entries, targetRootLength, compression) ==
    LET testBytes == CompressedDir(entries, compression).data
    IN IF BLen(testBytes) < targetRootLength
       THEN [done |-> TRUE, rootBytes |-> testBytes, leavesBytes |-> BEmpty,
             numLeaves |-> 0, leafSize |-> 0]
       ELSE OptimizeLoop(entries, targetRootLength, compression, INITIAL_LEAF_SIZE)


\* idOnLevel(zoom, pos); t / 2 and t / 4 are floating point in the source and
\* only their integer parts are read (1 & ..., t ^ rx)
RECURSIVE IdOnLevelLoop(_, _, _, _)
IdOnLevelLoop(n, s, t, xy) ==
    IF s < n
    THEN LET rx == (t \div 2) % 2
             ry == (IF rx = 1 THEN t + 1 ELSE t) % 2
             p == rotate(s, xy, rx, ry)
         IN IdOnLevelLoop(n, s * 2, t \div 4, << p[1] + s * rx, p[2] + s * ry >>)
    ELSE xy

idOnLevel(zoom, pos) ==
    LET xy == IdOnLevelLoop(Pow2(zoom), 1, pos, << 0, 0 >>)
    IN << zoom, xy[1], xy[2] >>

\* tileIDToZxy: the loop over z with the accumulated tile count acc
RECURSIVE TileIDToZxyLoop(_, _, _)
TileIDToZxyLoop(i, z, acc) ==
    LET numTiles == Pow2(z) * Pow2(z)
    IN IF acc + numTiles > i THEN idOnLevel(z, i - acc)
       ELSE TileIDToZxyLoop(i, z + 1, acc + numTiles)

tileIDToZxy(i) == TileIDToZxyLoop(i, 0, 0)

(***************************************************************************)
(* Bounds of the model.                                                    *)
(***************************************************************************)
MaxWrites == 2      \* write calls per writer session
MaxZoomIn == 1      \* tiles are written and read at zooms 0..MaxZoomIn
MaxFaceIn == 1      \* faces 0..MaxFaceIn are written and read
MaxX == 1           \* columns 0..MaxX
MaxY == 0           \* rows 0..MaxY
MaxInFlight == 2    \* calls that may overlap on one object

Faces == 0..5
FacesIn == 0..MaxFaceIn
\* the tile coordinates (zoom, x, y) that are written and read
Coords == { c \in (0..MaxZoomIn) \X (0..MaxX) \X (0..MaxY) :
              c[2] < Pow2(c[1]) /\ c[3] < Pow2(c[1]) }
\* a one-byte payload, and a 128-byte payload (its length takes two varint bytes)
Payloads == { BFill(1, 7), BFill(128, 9) }
\* byte strings short enough to follow push by push
SmallPayloads == { BFill(1, 7), BCat(BFill(1, 8), BFill(1, 9)) }
\* metadata values (number of letters): small, two that leave the root
\* directory a target of 6 and of 5 bytes, and one larger than the prelude
Metas == { 0, 16114, 16115, 98100 }
Slots == 1..MaxInFlight

(***************************************************************************)
(* State.                                                                  *)
(***************************************************************************)
VARIABLES
    \* BufferWriter
    buffer,             \* #buffer, the bytes of the sink
    \* S2PMTilesWriter
    tileEntries,        \* #tileEntries
    s2tileEntries,      \* #s2tileEntries, a list per face
    offset,             \* #offset, the write cursor
    addressedTiles,     \* #addressedTiles
    clustered,          \* #clustered
    minZoom,            \* #minZoom
    maxZoom,            \* #maxZoom
    compression,        \* the compression given to the constructor
    wphase,             \* "open", "committed", "hung" (commit never returns), "failed"
    wheader,            \* the header record built by commit, UndefinedHeader before
    wcalls,             \* the write calls in flight or finished, per slot
    wtasks,             \* the slots whose continuation is queued, oldest first
    accepted,           \* history: the writes whose promise resolved, in that order
    \* PMTilesWriter (the writer over a file; it shares the fields above)
    hashToOffset,       \* #hashToOffset, pairs [hsh, offset] in insertion order
    appends,            \* the appendFile calls issued on the file, in call order
    \* BufferReader
    archive,            \* buffer, the bytes behind the reader; empty: no reader yet
    \* S2PMTilesReader
    rheader,            \* #header
    rootDir,            \* #rootDir
    rootDirS2,          \* #rootDirS2
    metadata,           \* #metadata
    dirCache,           \* #dirCache: [order, map]
    rcalls,             \* the read calls in flight or finished, per slot
    preludeRequests,    \* history: how often the range (0, S2_ROOT_SIZE) was requested
    firstRequest,       \* history: the first range requested, NoRange before
    cacheOps,           \* history: the calls made on a DirCache of its own, in order
    \* the exported functions
    libCall             \* the last call of a function on its own: [fn, args, result]

wvars == << buffer, tileEntries, s2tileEntries, offset, addressedTiles, clustered,
            minZoom, maxZoom, compression, wphase, wheader, wcalls, wtasks, accepted,
            hashToOffset, appends >>
readerVars == << archive, rheader, rootDir, rootDirS2, metadata, dirCache, rcalls,
                 preludeRequests, firstRequest, cacheOps >>
rvars == << readerVars, libCall >>

\* no function was called on its own yet
NoLibCall == [fn |-> "none", args |-> << >>, result |-> << >>]
vars == << wvars, rvars >>

(***************************************************************************)
(* S2PMTilesWriter.  The writer's fields travel as one record through the  *)
(* step operators; an awaited call is the composition of its steps.        *)
(***************************************************************************)
Writer ==
    [buffer |-> buffer, tileEntries |-> tileEntries, s2tileEntries |-> s2tileEntries,
     offset |-> offset, addressedTiles |-> addressedTiles, clustered |-> clustered,
     minZoom |-> minZoom, maxZoom |-> maxZoom, compression |-> compression,
     phase |-> wphase, header |-> wheader, calls |-> wcalls, tasks |-> wtasks,
     accepted |-> accepted, hashToOffset |-> hashToOffset, appends |-> appends]

SetWriter(w) ==
    /\ buffer' = w.buffer
    /\ tileEntries' = w.tileEntries
    /\ s2tileEntries' = w.s2tileEntries
    /\ offset' = w.offset
    /\ addressedTiles' = w.addressedTiles
    /\ clustered' = w.clustered
    /\ minZoom' = w.minZoom
    /\ maxZoom' = w.maxZoom
    /\ compression' = w.compression
    /\ wphase' = w.phase
    /\ wheader' = w.header
    /\ wcalls' = w.calls
    /\ wtasks' = w.tasks
    /\ accepted' = w.accepted
    /\ hashToOffset' = w.hashToOffset
    /\ appends' = w.appends

SetWriterInit(w) ==
    /\ buffer = w.buffer
    /\ tileEntries = w.tileEntries
    /\ s2tileEntries = w.s2tileEntries
    /\ offset = w.offset
    /\ addressedTiles = w.addressedTiles
    /\ clustered = w.clustered
    /\ minZoom = w.minZoom
    /\ maxZoom = w.maxZoom
    /\ compression = w.compression
    /\ wphase = w.phase
    /\ wheader = w.header
    /\ wcalls = w.calls
    /\ wtasks = w.tasks
    /\ accepted = w.accepted
    /\ hashToOffset = w.hashToOffset
    /\ appends = w.appends

IdleWrite ==
    [pc |-> "idle", face |-> Undefined, tileID |-> 0, raw |-> BEmpty,
     data |-> BEmpty, offset |-> 0, i |-> 0, patches |-> << >>]

\* the constructor: appendSync(new Uint8Array(S2_ROOT_SIZE))
NewWriter(comp) ==
    [buffer |-> BufferAppend(BEmpty, BFill(S2_ROOT_SIZE, 0)),
     tileEntries |-> << >>,
     s2tileEntries |-> [f \in Faces |-> << >>],
     offset |-> 0, addressedTiles |-> 0, clustered |-> TRUE,
     minZoom |-> INITIAL_MIN_ZOOM, maxZoom |-> 0,
     compression |-> comp, phase |-> "open", header |-> UndefinedHeader,
     calls |-> [c \in Slots |-> IdleWrite], tasks |-> << >>, accepted |-> << >>,
     hashToOffset |-> << >>, appends |-> << >>]

WriteInFlight(call) == call.pc \in {"compress", "append", "appended", "appendFile", "patch"}

\* writeTile up to its first await: compress(data, this.compression)
BeginWriteTile(w, c, tileID, data, face) ==
    LET cd == compress(data, w.compression)
    IN IF cd.ok
       THEN [w EXCEPT !.calls[c] = [pc |-> "compress", face |-> face, tileID |-> tileID,
                                     raw |-> data, data |-> cd.data, offset |-> 0, i |-> 0,
                                     patches |-> << >>]]
       ELSE [w EXCEPT !.calls[c] = [IdleWrite EXCEPT !.pc = "failed"]]

\* writeTileXYZ / writeTileS2 up to the first await (face = Undefined for XYZ):
\* the zoom bounds are updated before zxyToTileID can throw
BeginWriteTileZXY(w, c, face, zoom, x, y, data) ==
    LET w1 == [w EXCEPT !.minZoom = Min(@, zoom), !.maxZoom = Max(@, zoom)]
        t == zxyToTileID(zoom, x, y)
    IN IF t.ok THEN BeginWriteTile(w1, c, t.id, data, face)
       ELSE [w1 EXCEPT !.calls[c] = [IdleWrite EXCEPT !.pc = "failed"]]

\* a tile ID that is not above the last entry of the list
NotAboveLast(entries, tileID) ==
    Len(entries) > 0 /\ tileID <= entries[Len(entries)].tileID

\* tileEntries.length > 0 && tileID < tileEntries.at(-1).tileID
Unordered(entries, tileID) ==
    Len(entries) > 0 /\ tileID < entries[Len(entries)].tileID

\* writeTile from the end of compress to the first await inside
\* writer.append: the clustered check, the read of the cursor, the first push
\* (an empty payload has no push: append returns at once)
ResumeCompressed(w, c) ==
    LET call == w.calls[c]
        entries == IF call.face # Undefined THEN w.s2tileEntries[call.face]
                   ELSE w.tileEntries
        unordered == Unordered(entries, call.tileID)
        length == BLen(call.data)
    IN [w EXCEPT !.clustered = IF unordered THEN FALSE ELSE @,
                 !.buffer = IF length > 0 THEN BufferPush(@, call.data, 0) ELSE @,
                 !.calls[c] = [call EXCEPT !.pc = IF length > 0 THEN "append"
                                                   ELSE "appended",
                                           !.offset = w.offset,
                                           !.i = IF length > 0 THEN 1 ELSE 0]]

\* a resumption inside writer.append: the next push, or, when all bytes are
\* pushed, the end of the loop, which resolves the promise writeTile awaits
ResumeAppend(w, c) ==
    IF w.calls[c].i < BLen(w.calls[c].data)
    THEN [w EXCEPT !.buffer = BufferPush(@, w.calls[c].data, w.calls[c].i),
                   !.calls[c].i = @ + 1]
    ELSE [w EXCEPT !.calls[c].pc = "appended"]

\* the entry writeTile pushes for call c
EntryOf(call) == Entry(call.tileID, call.offset, BLen(call.data), 1)

\* a writeTile that advances the cursor by one per tile, not by the length
AppendedCountingTiles(w, c) ==
    [w EXCEPT !.tileEntries = IF w.calls[c].face = Undefined
                              THEN Append(@, EntryOf(w.calls[c])) ELSE @,
              !.s2tileEntries = IF w.calls[c].face # Undefined
                                THEN [@ EXCEPT ![w.calls[c].face] =
                                                   Append(@, EntryOf(w.calls[c]))]
                                ELSE @,
              !.offset = @ + 1,
              !.addressedTiles = @ + 1,
              !.calls[c].pc = "done",
              !.accepted = Append(@, [face |-> w.calls[c].face,
                                      tileID |-> w.calls[c].tileID,
                                      data |-> w.calls[c].raw,
                                      entry |-> EntryOf(w.calls[c])])]

\* a writeTile that pushes its entry and leaves the tile count as it is
AppendedUncounted(w, c) ==
    [AppendedCountingTiles(w, c) EXCEPT
        !.offset = w.offset + BLen(w.calls[c].data),
        !.addressedTiles = w.addressedTiles]

\* writeTile after await writer.append: the entry is pushed with the cursor
\* read before the append, then the cursor and the tile count advance
ResumeAppended(w, c) ==
    [w EXCEPT !.tileEntries = IF w.calls[c].face = Undefined
                              THEN Append(@, EntryOf(w.calls[c])) ELSE @,
              !.s2tileEntries = IF w.calls[c].face # Undefined
                                THEN [@ EXCEPT ![w.calls[c].face] =
                                                   Append(@, EntryOf(w.calls[c]))]
                                ELSE @,
              !.offset = @ + BLen(w.calls[c].data),
              !.addressedTiles = @ + 1,
              !.calls[c].pc = "done",
              !.accepted = Append(@, [face |-> w.calls[c].face,
                                      tileID |-> w.calls[c].tileID,
                                      data |-> w.calls[c].raw,
                                      entry |-> EntryOf(w.calls[c])])]

\* one resumption of call c
WriteStep(w, c) ==
    CASE w.calls[c].pc = "compress" -> ResumeCompressed(w, c)
      [] w.calls[c].pc = "append" -> ResumeAppend(w, c)
      [] w.calls[c].pc = "appended" -> ResumeAppended(w, c)

\* all the pushes writer.append still has to do, one after the other
PushRest(w, c) ==
    LET call == w.calls[c]
    IN [w EXCEPT !.buffer = BufferAppend(@, BDrop(call.data, call.i)),
                 !.calls[c] = [call EXCEPT !.i = BLen(call.data)]]

\* the end of an awaited call whose bytes are all pushed
EndWrite(w, c) ==
    IF w.calls[c].pc = "append" THEN ResumeAppended(ResumeAppend(w, c), c)
    ELSE ResumeAppended(w, c)

\* an awaited call: every step of call c, with nothing in between
RunWrite(w, c) ==
    IF w.calls[c].pc = "compress"
    THEN EndWrite(PushRest(ResumeCompressed(w, c), c), c)
    ELSE w


\* the three patch writes of #commit: header, root directory, metadata
PatchPlanar(buf, header, rootBytes, metauint8) ==
    BufferWrite(
        BufferWrite(
            BufferWrite(buf, BFromSeq(headerToBytes(header)), 0),
            rootBytes, header.rootDirectoryOffset),
        metauint8, header.jsonMetadataOffset)

\* the header #commit builds for the sorted entries, the planned directories
\* and the cursor after the leaves
PlanarHeader(w, sorted, opt, metauint8) ==
    [specVersion |-> 3,
     rootDirectoryOffset |-> S2_HEADER_SIZE_BYTES,
     rootDirectoryLength |-> BLen(opt.rootBytes),
     jsonMetadataOffset |-> S2_HEADER_SIZE_BYTES + BLen(opt.rootBytes),
     jsonMetadataLength |-> BLen(metauint8),
     leafDirectoryOffset |-> w.offset + S2_ROOT_SIZE,
     leafDirectoryLength |-> BLen(opt.leavesBytes),
     tileDataOffset |-> S2_ROOT_SIZE,
     tileDataLength |-> w.offset + BLen(opt.leavesBytes),
     numAddressedTiles |-> w.addressedTiles,
     numTileEntries |-> Len(sorted),
     numTileContents |-> Len(sorted),
     clustered |-> w.clustered,
     internalCompression |-> w.compression,
     tileCompression |-> w.compression,
     tileType |-> TileTypePbf,
     minZoom |-> w.minZoom,
     maxZoom |-> w.maxZoom]

\* #commit from the append of the leaves on
PlanarWrite(w, opt, metauint8, header) ==
    [w EXCEPT !.offset = @ + BLen(opt.leavesBytes),
              !.buffer = PatchPlanar(BufferAppend(@, opt.leavesBytes), header,
                                     opt.rootBytes, metauint8),
              !.header = header,
              !.phase = "committed"]

\* #commit once optimizeDirectories has an answer (opt.done = FALSE: it
\* never returns)
PlanarPlanned(w, sorted, opt, metauint8) ==
    IF ~opt.done THEN [w EXCEPT !.phase = "hung"]
    ELSE PlanarWrite(w, opt, metauint8, PlanarHeader(w, sorted, opt, metauint8))

\* the root budget both commits hand to optimizeDirectories
RootTarget(metauint8) == ROOT_SIZE - S2_HEADER_SIZE_BYTES - BLen(metauint8)

\* #commit once the entries are sorted and the metadata is compressed
PlanarSorted(w, sorted, metauint8) ==
    IF ~metauint8.ok THEN [w EXCEPT !.phase = "failed"]
    ELSE PlanarPlanned(w, sorted,
                       optimizeDirectories(sorted, RootTarget(metauint8.data),
                                           w.compression),
                       metauint8.data)

\* #commit(metadata): the planar archive
commitPlanar(w, meta) ==
    PlanarSorted([w EXCEPT !.tileEntries = SortEntries(@)], SortEntries(w.tileEntries),
                 compress(JsonStringify(meta), w.compression))

\* sum of the lengths of blocks[0 .. f-1]
RECURSIVE LengthBefore(_, _)
LengthBefore(blocks, f) ==
    IF f = 0 THEN 0 ELSE LengthBefore(blocks, f - 1) + BLen(blocks[f - 1])

\* blocks[0] .. blocks[f] one after the other
RECURSIVE BlocksUpTo(_, _)
BlocksUpTo(blocks, f) ==
    IF f = 0 THEN blocks[0] ELSE BCat(BlocksUpTo(blocks, f - 1), blocks[f])

\* writer.write of the roots of faces f .. 5, in face order
RECURSIVE PatchRoots(_, _, _, _)
PatchRoots(buf, roots, offsets, f) ==
    IF f > 5 THEN buf
    ELSE PatchRoots(BufferWrite(buf, roots[f], offsets[f]), roots, offsets, f + 1)

\* the header #commitS2 builds: rootOff and leafOff are the offsets of the
\* six roots in the prelude and of the six leaf blocks in the file
S2HeaderOf(w, sorted, roots, leaves, rootOff, leafOff, metauint8) ==
    [specVersion |-> 3,
     rootDirectoryOffset |-> rootOff[0],
     rootDirectoryLength |-> BLen(roots[0]),
     rootDirectoryOffset1 |-> rootOff[1],
     rootDirectoryLength1 |-> BLen(roots[1]),
     rootDirectoryOffset2 |-> rootOff[2],
     rootDirectoryLength2 |-> BLen(roots[2]),
     rootDirectoryOffset3 |-> rootOff[3],
     rootDirectoryLength3 |-> BLen(roots[3]),
     rootDirectoryOffset4 |-> rootOff[4],
     rootDirectoryLength4 |-> BLen(roots[4]),
     rootDirectoryOffset5 |-> rootOff[5],
     rootDirectoryLength5 |-> BLen(roots[5]),
     jsonMetadataOffset |-> rootOff[5] + BLen(roots[5]),
     jsonMetadataLength |-> BLen(metauint8),
     leafDirectoryOffset |-> leafOff[0],
     leafDirectoryLength |-> BLen(leaves[0]),
     leafDirectoryOffset1 |-> leafOff[1],
     leafDirectoryLength1 |-> BLen(leaves[1]),
     leafDirectoryOffset2 |-> leafOff[2],
     leafDirectoryLength2 |-> BLen(leaves[2]),
     leafDirectoryOffset3 |-> leafOff[3],
     leafDirectoryLength3 |-> BLen(leaves[3]),
     leafDirectoryOffset4 |-> leafOff[4],
     leafDirectoryLength4 |-> BLen(leaves[4]),
     leafDirectoryOffset5 |-> leafOff[5],
     leafDirectoryLength5 |-> BLen(leaves[5]),
     tileDataOffset |-> S2_ROOT_SIZE,
     tileDataLength |-> w.offset + LengthBefore(leaves, 6),
     numAddressedTiles |-> w.addressedTiles,
     numTileEntries |-> Len(sorted[0]),
     numTileContents |-> Len(sorted[0]),
     clustered |-> w.clustered,
     internalCompression |-> w.compression,
     tileCompression |-> w.compression,
     tileType |-> TileTypePbf,
     minZoom |-> w.minZoom,
     maxZoom |-> w.maxZoom]

\* #commitS2 from the append of the six leaf blocks on: the patch writes of
\* the header, the six roots and the metadata
S2Write(w, roots, leaves, rootOff, metauint8, header) ==
    [w EXCEPT !.offset = @ + LengthBefore(leaves, 6),
              !.buffer =
                  BufferWrite(
                      PatchRoots(
                          BufferWrite(BufferAppend(@, BlocksUpTo(leaves, 5)),
                                      BFromSeq(s2HeaderToBytes(header)), 0),
                          roots, rootOff, 0),
                      metauint8, header.jsonMetadataOffset),
              !.header = header,
              !.phase = "committed"]

\* #commitS2 once the six directories are planned
S2Laid(w, sorted, roots, leaves, rootOff, leafOff, metauint8) ==
    S2Write(w, roots, leaves, rootOff, metauint8,
            S2HeaderOf(w, sorted, roots, leaves, rootOff, leafOff, metauint8))

\* a layout whose six roots start right after the planar header
S2BlocksAfterPlanarHeader(w, sorted, roots, leaves, metauint8) ==
    S2Laid(w, sorted, roots, leaves,
           [f \in Faces |-> HEADER_SIZE_BYTES + LengthBefore(roots, f)],
           [f \in Faces |-> w.offset + LengthBefore(leaves, f) + S2_ROOT_SIZE],
           metauint8)

\* #commitS2: the offsets of the six roots and of the six leaf blocks
S2Blocks(w, sorted, roots, leaves, metauint8) ==
    S2Laid(w, sorted, roots, leaves,
           [f \in Faces |-> S2_HEADER_SIZE_BYTES + LengthBefore(roots, f)],
           [f \in Faces |-> w.offset + LengthBefore(leaves, f) + S2_ROOT_SIZE],
           metauint8)

\* #commitS2 once optimizeDirectories has an answer for every face (done =
\* FALSE: it never returns)
S2Planned(w, sorted, opt, metauint8) ==
    IF \E f \in Faces : ~opt[f].done THEN [w EXCEPT !.phase = "hung"]
    ELSE S2Blocks(w, sorted, [f \in Faces |-> opt[f].rootBytes],
                  [f \in Faces |-> opt[f].leavesBytes], metauint8)

\* #commitS2 once the six lists are sorted and the metadata is compressed
S2Sorted(w, sorted, metauint8) ==
    IF ~metauint8.ok THEN [w EXCEPT !.phase = "failed"]
    ELSE S2Planned(w, sorted,
                   [f \in Faces |->
                       optimizeDirectories(sorted[f], RootTarget(metauint8.data),
                                           w.compression)],
                   metauint8.data)

\* #commitS2(metadata): the cubic archive, six roots and six leaf blocks
commitS2(w, meta) ==
    S2Sorted([w EXCEPT !.s2tileEntries = [f \in Faces |-> SortEntries(@[f])]],
             [f \in Faces |-> SortEntries(w.s2tileEntries[f])],
             compress(JsonStringify(meta), w.compression))

\* commit(metadata): the planar path when any planar tile was written
commit(w, meta) ==
    IF Len(w.tileEntries) = 0 THEN commitS2(w, meta) ELSE commitPlanar(w, meta)


(***************************************************************************)
(* DirCache: a Map from directory offset to entries plus the key list      *)
(* order, most recently used first.                                        *)
(***************************************************************************)
NewDirCache(maxSize) == [order |-> << >>, map |-> << >>, maxSize |-> maxSize]

CacheHas(cache, key) == key \in DOMAIN cache.map

\* order.indexOf(key), 0-based, -1 when absent
RECURSIVE IndexOfFrom(_, _, _)
IndexOfFrom(order, key, i) ==
    IF i > Len(order) THEN -1
    ELSE IF order[i] = key THEN i - 1
    ELSE IndexOfFrom(order, key, i + 1)

indexOf(order, key) == IndexOfFrom(order, key, 1)

\* order.splice(start, 1); a negative start counts from the end
splice1(order, start) ==
    LET at == IF start < 0 THEN Max(Len(order) + start, 0) ELSE start
    IN IF at >= Len(order) THEN order
       ELSE SubSeq(order, 1, at) \o SubSeq(order, at + 2, Len(order))

MapDelete(map, key) == [k \in (DOMAIN map) \ {key} |-> map[k]]
MapSet(map, key, value) == [k \in (DOMAIN map) \cup {key} |-> IF k = key THEN value ELSE map[k]]

\* delete(key): only the Map forgets the key
CacheDelete(cache, key) == [cache EXCEPT !.map = MapDelete(@, key)]

\* the eviction loop of set: while (order.length > maxSize) delete(order.pop())
RECURSIVE CacheEvict(_)
CacheEvict(cache) ==
    IF Len(cache.order) > cache.maxSize
    THEN CacheEvict(CacheDelete([cache EXCEPT !.order = SubSeq(@, 1, Len(@) - 1)],
                                cache.order[Len(cache.order)]))
    ELSE cache

CacheSet(cache, key, dir) ==
    LET spliced == IF CacheHas(cache, key)
                   THEN [cache EXCEPT !.order = splice1(@, indexOf(@, key))]
                   ELSE cache
        evicted == CacheEvict([spliced EXCEPT !.order = << key >> \o @])
    IN [evicted EXCEPT !.map = MapSet(@, key, dir)]

\* a get that leaves the order as it is
CacheGetNoPromote(cache, key) == cache

\* get(key): the cache after the call; the value returned is map[key]
CacheGet(cache, key) ==
    IF CacheHas(cache, key)
    THEN [cache EXCEPT !.order = << key >> \o splice1(@, indexOf(@, key))]
    ELSE cache


\* what get(key) returns: super.get(key)
CacheGetValue(cache, key) ==
    IF CacheHas(cache, key) THEN [kind |-> "dir", value |-> cache.map[key]]
    ELSE [kind |-> "undefined", value |-> << >>]

(***************************************************************************)
(* S2PMTilesReader over a BufferReader on the bytes b.  The reader's       *)
(* fields travel as one record through the step operators; a step runs a   *)
(* call from one await to the next.                                        *)
(***************************************************************************)
Reader ==
    [archive |-> archive, header |-> rheader, rootDir |-> rootDir, rootDirS2 |-> rootDirS2,
     metadata |-> metadata, dirCache |-> dirCache, calls |-> rcalls,
     preludeRequests |-> preludeRequests, firstRequest |-> firstRequest,
     cacheOps |-> cacheOps]

SetReader(r) ==
    /\ archive' = r.archive
    /\ rheader' = r.header
    /\ rootDir' = r.rootDir
    /\ rootDirS2' = r.rootDirS2
    /\ metadata' = r.metadata
    /\ dirCache' = r.dirCache
    /\ rcalls' = r.calls
    /\ preludeRequests' = r.preludeRequests
    /\ firstRequest' = r.firstRequest
    /\ cacheOps' = r.cacheOps
    /\ libCall' = libCall

SetReaderInit(r) ==
    /\ archive = r.archive
    /\ rheader = r.header
    /\ rootDir = r.rootDir
    /\ rootDirS2 = r.rootDirS2
    /\ metadata = r.metadata
    /\ dirCache = r.dirCache
    /\ rcalls = r.calls
    /\ preludeRequests = r.preludeRequests
    /\ firstRequest = r.firstRequest
    /\ cacheOps = r.cacheOps
    /\ libCall = NoLibCall

NoResult == [kind |-> "none", value |-> Undefined]
NoTmp == [ok |-> TRUE, data |-> BEmpty]

IdleRead ==
    [pc |-> "idle", kind |-> "none", face |-> Undefined, zoom |-> 0, x |-> 0, y |-> 0,
     tileID |-> 0, dO |-> 0, dL |-> 0, depth |-> 0, dir |-> << >>, cont |-> "top",
     lf |-> 0, tmp |-> NoTmp, entry |-> Entry(0, 0, 0, 0), result |-> NoResult,
     inspected |-> 0, pointers |-> 0, ranges |-> << >>]

\* new S2PMTilesReader(new BufferReader(bytes), maxSize)
NewReader(bytes, maxSize) ==
    [archive |-> bytes, header |-> UndefinedHeader, rootDir |-> << >>, rootDirS2 |-> [f \in Faces |-> << >>],
     metadata |-> Undefined, dirCache |-> NewDirCache(maxSize),
     calls |-> [c \in Slots |-> IdleRead],
     preludeRequests |-> 0, firstRequest |-> NoRange, cacheOps |-> << >>]

ReadInFlight(call) == call.pc \notin {"idle", "done", "failed"}

\* BufferReader.getRange(offset, length)
getRange(b, off, length) == BSlice(b, off, off + length)

\* the call issues reader.getRange(off, length) and waits at pc
RequestRange(r, c, off, length, pc) ==
    [r EXCEPT !.preludeRequests =
                  IF off = 0 /\ length = S2_ROOT_SIZE THEN @ + 1 ELSE @,
              !.firstRequest = IF @ = NoRange THEN << off, length >> ELSE @,
              !.calls[c] = [@ EXCEPT !.pc = pc, !.ranges = Append(@, << off, length >>)]]

\* the call returns: its locals are dropped, the result stays
Finish(r, c, pc, kind, value) ==
    [r EXCEPT !.calls[c] =
        [IdleRead EXCEPT !.pc = pc, !.kind = r.calls[c].kind, !.face = r.calls[c].face,
                         !.zoom = r.calls[c].zoom, !.x = r.calls[c].x, !.y = r.calls[c].y,
                         !.result = [kind |-> kind, value |-> value],
                         !.inspected = r.calls[c].inspected,
                         !.pointers = r.calls[c].pointers,
                         !.ranges = r.calls[c].ranges]]

Return(r, c, kind, value) == Finish(r, c, "done", kind, value)
Throw(r, c, message) == Finish(r, c, "failed", "error", message)

\* headerData[0] === 83 && headerData[1] === 50
IsS2(b) == BAt(b, 0) = 83 /\ BAt(b, 1) = 50

\* header[`rootDirectoryOffset${face}`] and header[`rootDirectoryLength${face}`]
RootOffsetOf(h, face) ==
    CASE face = 1 -> h.rootDirectoryOffset1
      [] face = 2 -> h.rootDirectoryOffset2
      [] face = 3 -> h.rootDirectoryOffset3
      [] face = 4 -> h.rootDirectoryOffset4
      [] face = 5 -> h.rootDirectoryOffset5

RootLengthOf(h, face) ==
    CASE face = 1 -> h.rootDirectoryLength1
      [] face = 2 -> h.rootDirectoryLength2
      [] face = 3 -> h.rootDirectoryLength3
      [] face = 4 -> h.rootDirectoryLength4
      [] face = 5 -> h.rootDirectoryLength5

\* #getMetadata up to its first await, entered from the top of a public call
\* (cont = "top") or from #getDirectory (cont = "dir")
EnterGetMetadata(r, c, cont) ==
    LET r1 == [r EXCEPT !.calls[c].cont = cont]
    IN IF r.header # UndefinedHeader THEN [r1 EXCEPT !.calls[c].pc = "header"]
       ELSE RequestRange(r1, c, 0, S2_ROOT_SIZE, "load_range")

\* a public call up to its first await
BeginRead(r, c, kind, face, zoom, x, y) ==
    EnterGetMetadata(
        [r EXCEPT !.calls[c] = [IdleRead EXCEPT !.kind = kind, !.face = face,
                                                !.zoom = zoom, !.x = x, !.y = y]],
        c, "top")

\* #getMetadata after getRange: the header is parsed and stored, then the
\* metadata blob is sliced out of the prelude and handed to decompress
ResumeLoadRange(r, b, c) ==
    LET data == getRange(b, 0, S2_ROOT_SIZE)
        headerData == BToSeq(BSlice(data, 0, S2_HEADER_SIZE_BYTES))
        header == IF IsS2(data) THEN s2BytesToHeader(headerData)
                  ELSE bytesToHeader(headerData)
        jsonMetadata == BSlice(data, header.jsonMetadataOffset,
                               header.jsonMetadataOffset + header.jsonMetadataLength)
    IN [r EXCEPT !.header = header,
                 !.calls[c] = [@ EXCEPT !.pc = "load_meta",
                                        !.tmp = decompress(jsonMetadata,
                                                           header.internalCompression)]]

\* a root directory of the prelude, sliced and handed to decompress
RootDirData(b, header, off, length) ==
    decompress(BSlice(getRange(b, 0, S2_ROOT_SIZE), off, off + length),
               header.internalCompression)

\* #getMetadata after the metadata is decompressed: JSON.parse, then the
\* face-0 root is sliced and handed to decompress
ResumeLoadMeta(r, b, c) ==
    LET call == r.calls[c]
        parsed == JsonParse(call.tmp.data)
    IN IF ~call.tmp.ok THEN Throw(r, c, "decompress")
       ELSE IF ~parsed.ok THEN Throw(r, c, "SyntaxError")
       ELSE [r EXCEPT !.metadata = parsed.value,
                      !.calls[c] = [@ EXCEPT !.pc = "load_root",
                                             !.tmp = RootDirData(b, r.header,
                                                         r.header.rootDirectoryOffset,
                                                         r.header.rootDirectoryLength)]]

\* #getMetadata after the root is decompressed: deserializeDir; a cubic
\* archive goes on with #getS2Metadata, face 1
ResumeLoadRoot(r, b, c) ==
    LET call == r.calls[c]
        dir == DeserializeDir(BToSeq(call.tmp.data))
    IN IF ~call.tmp.ok THEN Throw(r, c, "decompress")
       ELSE IF ~dir.ok THEN Throw(r, c, "varint")
       ELSE IF IsS2(b)
            THEN [r EXCEPT !.rootDir = dir.entries,
                           !.rootDirS2 = [@ EXCEPT ![0] = dir.entries],
                           !.calls[c] = [@ EXCEPT !.pc = "load_s2", !.lf = 1,
                                                  !.tmp = RootDirData(b, r.header,
                                                              RootOffsetOf(r.header, 1),
                                                              RootLengthOf(r.header, 1))]]
       ELSE [r EXCEPT !.rootDir = dir.entries,
                      !.calls[c] = [@ EXCEPT !.pc = "header", !.tmp = NoTmp]]

\* #getS2Metadata after the root of face lf is decompressed
ResumeLoadS2(r, b, c) ==
    LET call == r.calls[c]
        dir == DeserializeDir(BToSeq(call.tmp.data))
    IN IF ~call.tmp.ok THEN Throw(r, c, "decompress")
       ELSE IF ~dir.ok THEN Throw(r, c, "varint")
       ELSE IF call.lf < 5
            THEN [r EXCEPT !.rootDirS2 = [@ EXCEPT ![call.lf] = dir.entries],
                           !.calls[c] = [@ EXCEPT !.lf = @ + 1,
                                                  !.tmp = RootDirData(b, r.header,
                                                      RootOffsetOf(r.header, call.lf + 1),
                                                      RootLengthOf(r.header, call.lf + 1))]]
       ELSE [r EXCEPT !.rootDirS2 = [@ EXCEPT ![call.lf] = dir.entries],
                      !.calls[c] = [@ EXCEPT !.pc = "header", !.tmp = NoTmp]]

\* #getDirectory(dO, dL, face) up to its first await: the root of the face is
\* read from the fields first, then #getMetadata is awaited
EnterGetDirectory(r, c) ==
    LET call == r.calls[c]
        dir == IF call.face = -1 THEN r.rootDir ELSE r.rootDirS2[call.face]
    IN EnterGetMetadata([r EXCEPT !.calls[c].dir = dir], c, "dir")

\* a walk that may go one level deeper than the loop of #getTile allows
OneLevelDeeper(depth) == depth + 1 > MAX_DEPTH + 1

\* for (let depth = 0; depth <= 3; depth++): the loop ends after the pass
\* that ran with this depth
LoopEnds(depth) == depth + 1 > MAX_DEPTH

\* #getTile once #getDirectory returned directory: findTile, then the tile is
\* requested, or the walk goes one level down, or the call ends
AfterDirectory(r, c, directory) ==
    LET call == r.calls[c]
        r1 == [r EXCEPT !.calls[c].inspected = @ + 1]
        found == findTile(directory, call.tileID)
        entry == directory[found]
        r2 == [r1 EXCEPT !.calls[c].pointers = @ + 1]
    IN IF found = 0 THEN Return(r1, c, "undefined", Undefined)
       ELSE IF entry.runLength > 0
            THEN RequestRange([r1 EXCEPT !.calls[c].entry = entry], c,
                              r.header.tileDataOffset + entry.offset, entry.length,
                              "tile_range")
       ELSE IF LoopEnds(call.depth)
            THEN Throw(r2, c, "Maximum directory depth exceeded")
       ELSE EnterGetDirectory(
                [r2 EXCEPT !.calls[c] = [@ EXCEPT !.dO = r.header.leafDirectoryOffset
                                                          + entry.offset,
                                                  !.dL = entry.length,
                                                  !.depth = @ + 1]], c)

\* a #getDirectory that does not ask #dirCache: every leaf is requested
HeaderStepUncached(r, b, c) ==
    LET call == r.calls[c]
        header == r.header
        t == zxyToTileID(call.zoom, call.x, call.y)
    IN IF call.cont = "top"
       THEN IF call.kind = "getHeader" THEN Return(r, c, "header", header)
            ELSE IF call.kind = "getMetadata" THEN Return(r, c, "metadata", r.metadata)
            ELSE IF ~t.ok THEN Throw(r, c, "zxyToTileID")
            ELSE IF call.zoom < header.minZoom \/ call.zoom > header.maxZoom
                 THEN Return(r, c, "undefined", Undefined)
            ELSE EnterGetDirectory(
                     [r EXCEPT !.calls[c] = [@ EXCEPT !.tileID = t.id,
                                                     !.dO = header.rootDirectoryOffset,
                                                     !.dL = header.rootDirectoryLength,
                                                     !.depth = 0]], c)
       ELSE IF call.dO = header.rootDirectoryOffset THEN AfterDirectory(r, c, call.dir)
            ELSE RequestRange(r, c, call.dO, call.dL, "dir_range")

\* the continuation of an await of #getMetadata that returned the header
ResumeHeader(r, b, c) ==
    LET call == r.calls[c]
        header == r.header
        t == zxyToTileID(call.zoom, call.x, call.y)
        cached == r.dirCache.map[call.dO]
    IN IF call.cont = "top"
       THEN IF call.kind = "getHeader" THEN Return(r, c, "header", header)
            ELSE IF call.kind = "getMetadata" THEN Return(r, c, "metadata", r.metadata)
            ELSE IF ~t.ok THEN Throw(r, c, "zxyToTileID")
            ELSE IF call.zoom < header.minZoom \/ call.zoom > header.maxZoom
                 THEN Return(r, c, "undefined", Undefined)
            ELSE EnterGetDirectory(
                     [r EXCEPT !.calls[c] = [@ EXCEPT !.tileID = t.id,
                                                     !.dO = header.rootDirectoryOffset,
                                                     !.dL = header.rootDirectoryLength,
                                                     !.depth = 0]], c)
       ELSE IF call.dO = header.rootDirectoryOffset THEN AfterDirectory(r, c, call.dir)
            ELSE IF CacheHas(r.dirCache, call.dO)
                 THEN AfterDirectory([r EXCEPT !.dirCache = CacheGet(@, call.dO)], c, cached)
            ELSE RequestRange(r, c, call.dO, call.dL, "dir_range")

\* a #getDirectory without the check of directory.length: a directory of
\* zero entries is cached and handed to findTile
DirRangeUnchecked(r, b, c) ==
    LET call == r.calls[c]
        data == decompress(getRange(b, call.dO, call.dL), r.header.internalCompression)
        dir == DeserializeDir(BToSeq(data.data))
    IN IF ~data.ok THEN Throw(r, c, "decompress")
       ELSE IF ~dir.ok THEN Throw(r, c, "varint")
       ELSE AfterDirectory([r EXCEPT !.dirCache = CacheSet(@, call.dO, dir.entries)],
                           c, dir.entries)

\* #getDirectory after getRange: decompress, deserializeDir, cache, return
ResumeDirRange(r, b, c) ==
    LET call == r.calls[c]
        data == decompress(getRange(b, call.dO, call.dL), r.header.internalCompression)
        dir == DeserializeDir(BToSeq(data.data))
    IN IF ~data.ok THEN Throw(r, c, "decompress")
       ELSE IF ~dir.ok THEN Throw(r, c, "varint")
       ELSE IF Len(dir.entries) = 0 THEN Throw(r, c, "Empty directory is invalid")
       ELSE AfterDirectory([r EXCEPT !.dirCache = CacheSet(@, call.dO, dir.entries)],
                           c, dir.entries)

\* a reader that takes entry.offset for a position in the file, leaving out
\* tileDataOffset
TileRangeFromFileStart(r, b, c) ==
    LET call == r.calls[c]
        entryData == getRange(b, call.entry.offset, call.entry.length)
        data == decompress(entryData, r.header.tileCompression)
    IN IF data.ok THEN Return(r, c, "tile", data.data) ELSE Throw(r, c, "decompress")

\* #getTile after the tile's getRange: decompress and return
ResumeTileRange(r, b, c) ==
    LET call == r.calls[c]
        entryData == getRange(b, r.header.tileDataOffset + call.entry.offset,
                              call.entry.length)
        data == decompress(entryData, r.header.tileCompression)
    IN IF data.ok THEN Return(r, c, "tile", data.data) ELSE Throw(r, c, "decompress")

ReadStep(r, b, c) ==
    LET pc == r.calls[c].pc
    IN CASE pc = "load_range" -> ResumeLoadRange(r, b, c)
         [] pc = "load_meta" -> ResumeLoadMeta(r, b, c)
         [] pc = "load_root" -> ResumeLoadRoot(r, b, c)
         [] pc = "load_s2" -> ResumeLoadS2(r, b, c)
         [] pc = "header" -> ResumeHeader(r, b, c)
         [] pc = "dir_range" -> ResumeDirRange(r, b, c)
         [] pc = "tile_range" -> ResumeTileRange(r, b, c)

\* an awaited call: every step of call c, with nothing in between
RECURSIVE RunRead(_, _, _)
RunRead(r, b, c) == IF ReadInFlight(r.calls[c]) THEN RunRead(ReadStep(r, b, c), b, c) ELSE r


(***************************************************************************)
(* Awaited use: every call is awaited before the next one starts.  One     *)
(* writer session, then one reader over the committed bytes.               *)
(***************************************************************************)
Init ==
    /\ SetWriterInit(NewWriter(CompressionNone))
    /\ SetReaderInit(NewReader(BEmpty, DEFAULT_MAX_SIZE))

NoWriteInFlight == \A c \in Slots : ~WriteInFlight(wcalls[c])
NoReadInFlight == \A c \in Slots : ~ReadInFlight(rcalls[c])
CanWrite == wphase = "open" /\ NoWriteInFlight /\ Len(accepted) < MaxWrites

\* await writer.writeTileXYZ(zoom, x, y, data)
WriteTileXYZ(zoom, x, y, data) ==
    /\ CanWrite
    /\ SetWriter(RunWrite(BeginWriteTileZXY(Writer, 1, Undefined, zoom, x, y, data), 1))
    /\ UNCHANGED rvars

\* await writer.writeTileS2(face, zoom, x, y, data)
WriteTileS2(face, zoom, x, y, data) ==
    /\ CanWrite
    /\ SetWriter(RunWrite(BeginWriteTileZXY(Writer, 1, face, zoom, x, y, data), 1))
    /\ UNCHANGED rvars

\* await writer.commit(metadata)
Commit(meta) ==
    /\ wphase = "open"
    /\ NoWriteInFlight
    /\ SetWriter(commit(Writer, meta))
    /\ UNCHANGED rvars

\* a reader has been built over the bytes of a sink
CanRead == archive # BEmpty /\ NoReadInFlight

\* new S2PMTilesReader(new BufferReader(writer.commit())) once the commit of
\* the S2PMTilesWriter has completed
OpenReader ==
    /\ wphase = "committed"
    /\ archive = BEmpty
    /\ SetReader(NewReader(buffer, DEFAULT_MAX_SIZE))
    /\ UNCHANGED wvars

\* await reader.getHeader()
GetHeader ==
    /\ CanRead
    /\ SetReader(RunRead(BeginRead(Reader, 1, "getHeader", Undefined, 0, 0, 0), archive, 1))
    /\ UNCHANGED wvars

\* await reader.getMetadata()
GetMetadata ==
    /\ CanRead
    /\ SetReader(RunRead(BeginRead(Reader, 1, "getMetadata", Undefined, 0, 0, 0), archive, 1))
    /\ UNCHANGED wvars

\* await reader.getTile(zoom, x, y)
GetTile(zoom, x, y) ==
    /\ CanRead
    /\ SetReader(RunRead(BeginRead(Reader, 1, "getTile", -1, zoom, x, y), archive, 1))
    /\ UNCHANGED wvars

\* await reader.getTileS2(face, zoom, x, y)
GetTileS2(face, zoom, x, y) ==
    /\ CanRead
    /\ SetReader(RunRead(BeginRead(Reader, 1, "getTileS2", face, zoom, x, y), archive, 1))
    /\ UNCHANGED wvars

Next ==
    \/ \E c \in Coords, data \in Payloads : WriteTileXYZ(c[1], c[2], c[3], data)
    \/ \E face \in FacesIn, c \in Coords, data \in Payloads :
           WriteTileS2(face, c[1], c[2], c[3], data)
    \/ \E meta \in Metas : Commit(meta)
    \/ OpenReader
    \/ GetHeader
    \/ GetMetadata
    \/ \E c \in Coords : GetTile(c[1], c[2], c[3])
    \/ \E face \in FacesIn, c \in Coords : GetTileS2(face, c[1], c[2], c[3])

Spec == Init /\ [][Next]_vars

(***************************************************************************)
(* Properties of awaited use.                                              *)
(***************************************************************************)
\* the call of slot 1 that returned or threw last
LastRead == rcalls[1]
ReadReturned == LastRead.pc \in {"done", "failed"}
ReadTileID == zxyToTileID(LastRead.zoom, LastRead.x, LastRead.y).id

\* the face a public read looks up: Undefined stands for the planar getTile
ReadFace == IF LastRead.kind = "getTile" THEN Undefined ELSE LastRead.face

\* the accepted writes are planar / cubic only, with pairwise distinct keys
AllPlanar == \A i \in 1..Len(accepted) : accepted[i].face = Undefined
AllCubic == \A i \in 1..Len(accepted) : accepted[i].face # Undefined
DistinctKeys ==
    \A i, j \in 1..Len(accepted) :
        i # j => << accepted[i].face, accepted[i].tileID >>
                 # << accepted[j].face, accepted[j].tileID >>

\* a planar archive read with getTile, or a cubic one read with getTileS2
ReadMatchesArchive ==
    \/ AllPlanar /\ LastRead.kind = "getTile"
    \/ AllCubic /\ LastRead.kind = "getTileS2"

\* the indices of the accepted writes to (face, tileID)
WritesTo(face, tileID) ==
    { i \in 1..Len(accepted) : accepted[i].face = face /\ accepted[i].tileID = tileID }

\* the last read returned the bytes data / returned undefined
ReturnedTile(data) == LastRead.result.kind = "tile" /\ LastRead.result.value = data
ReturnedUndefined == LastRead.pc = "done" /\ LastRead.result.kind = "undefined"

\* C1: planar round trip.  After awaited writeTileXYZ calls with pairwise
\* distinct coordinates and a commit, getTile(z, x, y) of a written coordinate
\* returns exactly the payload written for it, split directory or not.
C1_PlanarRoundTrip ==
    (wphase = "committed" /\ AllPlanar /\ DistinctKeys
     /\ ReadReturned /\ LastRead.kind = "getTile")
    => \A i \in WritesTo(Undefined, ReadTileID) :
           ReturnedTile(accepted[i].data)

\* a planar archive whose directory was split, two tiles written out of tile
\* ID order, and a getTile that went through the leaf and returned the payload
C1_Witness ==
    /\ wphase = "committed" /\ AllPlanar /\ DistinctKeys /\ Len(accepted) = 2
    /\ accepted[1].tileID > accepted[2].tileID
    /\ wheader.leafDirectoryLength > 0
    /\ ReadReturned /\ LastRead.kind = "getTile" /\ LastRead.inspected = 2
    /\ WritesTo(Undefined, ReadTileID) = {1}
    /\ ReturnedTile(accepted[1].data)

\* C2: cubic round trip.  After awaited writeTileS2 calls with pairwise
\* distinct (face, z, x, y) and a commit, getTileS2(face, z, x, y) of a written
\* key returns the payload written for that face and coordinate, also when the
\* directories of two or more faces were split.
C2_CubicRoundTrip ==
    (wphase = "committed" /\ AllCubic /\ DistinctKeys
     /\ ReadReturned /\ LastRead.kind = "getTileS2")
    => \A i \in WritesTo(LastRead.face, ReadTileID) :
           ReturnedTile(accepted[i].data)

\* two faces with a split directory each, and a getTileS2 of a written key
\* of the second of them that has returned
C2_Witness ==
    /\ wphase = "committed" /\ AllCubic /\ DistinctKeys
    /\ wheader.leafDirectoryLength > 0 /\ wheader.leafDirectoryLength1 > 0
    /\ ReadReturned /\ LastRead.kind = "getTileS2" /\ LastRead.face = 1
    /\ WritesTo(1, ReadTileID) # {}

\* C3: last writer wins.  When one tile ID was written more than once on the
\* same face, the reader returns the payload of the last of these writes.
C3_LastWriterWins ==
    (wphase = "committed" /\ ReadReturned /\ ReadMatchesArchive
     /\ Cardinality(WritesTo(ReadFace, ReadTileID)) > 1)
    => \A i \in WritesTo(ReadFace, ReadTileID) :
           (\A j \in WritesTo(ReadFace, ReadTileID) : j <= i)
           => ReturnedTile(accepted[i].data)

\* one tile ID written twice with different payloads, then read
C3_Witness ==
    /\ wphase = "committed" /\ AllPlanar /\ ReadReturned /\ LastRead.kind = "getTile"
    /\ WritesTo(Undefined, ReadTileID) = {1, 2}
    /\ accepted[1].data # accepted[2].data

\* C4: not-found is a value.  A valid (face, z, x, y) that was never written on
\* that face reads as undefined, without an error, whatever the other faces
\* hold and whether or not directories have leaves.
C4_NotFoundIsValue ==
    (wphase = "committed" /\ ReadReturned /\ ReadMatchesArchive
     /\ WritesTo(ReadFace, ReadTileID) = {})
    => ReturnedUndefined

\* a never-written key of a face whose directory has leaves, inside the
\* archive's zoom range, read to the end
C4_Witness ==
    /\ wphase = "committed" /\ AllCubic /\ ReadReturned /\ LastRead.kind = "getTileS2"
    /\ WritesTo(LastRead.face, ReadTileID) = {}
    /\ wheader.leafDirectoryLength > 0
    /\ LastRead.face = 0 /\ LastRead.inspected = 2

\* the bytes of the sink that the entry of the i-th accepted write points at
StoredBytes(i) ==
    BSlice(buffer, S2_ROOT_SIZE + accepted[i].entry.offset,
           S2_ROOT_SIZE + accepted[i].entry.offset + accepted[i].entry.length)

\* the entry of the i-th accepted write is in the list of its face
EntryListed(i) ==
    LET list == IF accepted[i].face = Undefined THEN tileEntries
                ELSE s2tileEntries[accepted[i].face]
    IN \E k \in 1..Len(list) : list[k] = accepted[i].entry

\* C7: prelude fit.  After every commit that completes, the header, the root
\* directories and the metadata blob end inside the reserved prelude, and the
\* commit's patch writes leave the bytes of every tile as they were appended.
C7_PreludeFit ==
    wphase = "committed"
    => /\ wheader.jsonMetadataOffset + wheader.jsonMetadataLength <= S2_ROOT_SIZE
       /\ \A i \in 1..Len(accepted) :
              StoredBytes(i) = compress(accepted[i].data, compression).data

\* a completed cubic commit with two split faces and the large metadata blob
C7_Witness ==
    /\ wphase = "committed" /\ AllCubic /\ Len(accepted) = 2
    /\ wheader.leafDirectoryLength > 0 /\ wheader.leafDirectoryLength1 > 0
    /\ wheader.jsonMetadataLength > ROOT_SIZE - S2_HEADER_SIZE_BYTES - 8

\* C8: prelude law.  A new writer's sink holds exactly 98304 zero bytes; while
\* awaited writes are accepted the sink is 98304 + cursor bytes long and every
\* entry points at its own payload, 98304 bytes behind the start of the sink;
\* a commit records tileDataOffset = 98304.
C8_PreludeLaw ==
    /\ (wphase = "open" /\ accepted = << >>) => buffer = BFill(S2_ROOT_SIZE, 0)
    /\ wphase = "open"
       => /\ BLen(buffer) = S2_ROOT_SIZE + offset
          /\ \A i \in 1..Len(accepted) :
                 /\ EntryListed(i)
                 /\ StoredBytes(i) = compress(accepted[i].data, compression).data
    /\ wphase = "committed" => wheader.tileDataOffset = S2_ROOT_SIZE

\* two accepted writes, the 128-byte payload behind the one-byte payload
C8_Witness ==
    /\ wphase = "open" /\ Len(accepted) = 2
    /\ accepted[2].entry.offset = 1 /\ accepted[2].entry.length = 128
    /\ offset = 129

(***************************************************************************)
(* Awaited use with the tile-ID entry point: writeTile(tileID, data, face)  *)
(* is public and may be called directly, next to writeTileXYZ/writeTileS2. *)
(***************************************************************************)
TileIDs == { zxyToTileID(c[1], c[2], c[3]).id : c \in Coords }
FaceArgs == FacesIn \cup { Undefined }

\* await writer.writeTile(tileID, data, face); face = Undefined: no face given
WriteTile(tileID, data, face) ==
    /\ CanWrite
    /\ SetWriter(RunWrite(BeginWriteTile(Writer, 1, tileID, data, face), 1))
    /\ UNCHANGED rvars

NextDirect ==
    \/ \E tileID \in TileIDs, face \in FaceArgs : WriteTile(tileID, BFill(1, 7), face)
    \/ \E c \in Coords : WriteTileXYZ(c[1], c[2], c[3], BFill(1, 7))
    \/ \E face \in FacesIn, c \in Coords : WriteTileS2(face, c[1], c[2], c[3], BFill(1, 7))
    \/ Commit(0)
    \/ OpenReader
    \/ \E c \in Coords : GetTile(c[1], c[2], c[3])
    \/ \E face \in FacesIn, c \in Coords : GetTileS2(face, c[1], c[2], c[3])

SpecDirect == Init /\ [][NextDirect]_vars

\* the zoom of a tile ID
ZoomOf(tileID) == tileIDToZxy(tileID)[1]

\* C6: zoom bounds in the header.  After commit, minZoom <= zoom(t) <= maxZoom
\* for every accepted tile t, whichever entry point accepted it, so that the
\* reader's zoom-range check never hides a written tile.
C6_ZoomBounds ==
    wphase = "committed"
    => /\ \A i \in 1..Len(accepted) :
              /\ wheader.minZoom <= ZoomOf(accepted[i].tileID)
              /\ ZoomOf(accepted[i].tileID) <= wheader.maxZoom
       /\ (ReadReturned /\ ReadMatchesArchive /\ WritesTo(ReadFace, ReadTileID) # {})
          => ~(ReturnedUndefined /\ LastRead.inspected = 0)

\* a committed archive holding a zoom-1 tile whose header records no zoom 1,
\* and a read of that tile that has returned
C6_Witness ==
    /\ wphase = "committed" /\ AllPlanar /\ Len(accepted) > 0
    /\ \E i \in 1..Len(accepted) : ZoomOf(accepted[i].tileID) = 1
    /\ wheader.maxZoom = 0
    /\ ReadReturned /\ LastRead.kind = "getTile" /\ LastRead.zoom = 1
    /\ WritesTo(Undefined, ReadTileID) # {}


(***************************************************************************)
(* Overlapping writes: writeTile calls started without awaiting the        *)
(* previous one.  Every await of writeTile and of BufferWriter.append      *)
(* yields to the microtask queue, which resumes the calls oldest first.    *)
(***************************************************************************)

\* the lowest slot that holds no call yet
FreeSlot(c) == wcalls[c].pc = "idle" /\ \A d \in Slots : d < c => wcalls[d].pc # "idle"

\* a call that has run up to its first await waits in the queue
Enqueue(w, c) ==
    IF WriteInFlight(w.calls[c]) THEN [w EXCEPT !.tasks = Append(@, c)] ELSE w

\* the queue after its oldest call c was resumed: c waits again unless it
\* has returned
Requeue(w, c) ==
    IF WriteInFlight(w.calls[c]) THEN [w EXCEPT !.tasks = Append(Tail(@), c)]
    ELSE [w EXCEPT !.tasks = Tail(@)]

\* writer.writeTileXYZ(zoom, x, y, data), not awaited
StartWriteTileXYZ(c, zoom, x, y, data) ==
    /\ wphase = "open"
    /\ FreeSlot(c)
    /\ SetWriter(Enqueue(BeginWriteTileZXY(Writer, c, Undefined, zoom, x, y, data), c))
    /\ UNCHANGED rvars

\* writer.writeTileS2(face, zoom, x, y, data), not awaited
StartWriteTileS2(c, face, zoom, x, y, data) ==
    /\ wphase = "open"
    /\ FreeSlot(c)
    /\ SetWriter(Enqueue(BeginWriteTileZXY(Writer, c, face, zoom, x, y, data), c))
    /\ UNCHANGED rvars

\* the microtask queue resumes its oldest call up to that call's next await
ResumeWrite ==
    /\ wtasks # << >>
    /\ SetWriter(Requeue(WriteStep(Writer, Head(wtasks)), Head(wtasks)))
    /\ UNCHANGED rvars

NextOverlapWrites ==
    \/ \E c \in Slots, z \in Coords, data \in SmallPayloads :
           StartWriteTileXYZ(c, z[1], z[2], z[3], data)
    \/ \E c \in Slots, face \in FacesIn, z \in Coords, data \in SmallPayloads :
           StartWriteTileS2(c, face, z[1], z[2], z[3], data)
    \/ ResumeWrite
    \/ Commit(0)

SpecOverlapWrites == Init /\ [][NextOverlapWrites]_vars

\* the byte ranges of the i-th and the j-th accepted entry do not overlap
Disjoint(i, j) ==
    \/ accepted[i].entry.offset + accepted[i].entry.length <= accepted[j].entry.offset
    \/ accepted[j].entry.offset + accepted[j].entry.length <= accepted[i].entry.offset

\* the number of payload bytes of the first n accepted writes
RECURSIVE PayloadBytes(_)
PayloadBytes(n) ==
    IF n = 0 THEN 0 ELSE PayloadBytes(n - 1) + accepted[n].entry.length

\* C5: overlapping writes.  When every started writeTileXYZ / writeTileS2 call
\* has resolved, the byte ranges of the entries are pairwise disjoint, each
\* range of the sink holds the bytes of its own payload, and the write cursor
\* is the total number of payload bytes appended.
C5_OverlappingWrites ==
    (wphase = "open" /\ NoWriteInFlight)
    => /\ \A i, j \in 1..Len(accepted) : i < j => Disjoint(i, j)
       /\ \A i \in 1..Len(accepted) :
              StoredBytes(i) = compress(accepted[i].data, compression).data
       /\ offset = PayloadBytes(Len(accepted))
       /\ BLen(buffer) = S2_ROOT_SIZE + offset

\* two calls started back to back have both resolved, and the second was
\* started before the first one had appended its bytes
C5_Witness ==
    /\ wphase = "open" /\ NoWriteInFlight /\ Len(accepted) = 2
    /\ \A c \in Slots : wcalls[c].pc = "done"
    /\ wcalls[1].offset = wcalls[2].offset


(***************************************************************************)
(* Reading archives no writer produced: files whose leaf pointers form     *)
(* chains of any depth, cycles, or point outside the leaf section.  Every  *)
(* directory of such a file holds one entry for tile ID 0, a tile entry or *)
(* a leaf pointer, which findTile returns for every tile ID.               *)
(***************************************************************************)
MaxChain == 5       \* leaf levels of the longest chain
MaxCycle == 2       \* leaf directories of the longest cycle

\* bytes of a directory with one entry of small numbers
DirSize == Len(SerializeDir(<< Entry(0, 0, 1, 1) >>))

\* the links of a file: root and leaves[j] are 0 for a tile entry and p > 0
\* for a pointer to leaf directory p; rootLoop: the leaf section starts at
\* the root directory, so that leaf pointer 1 leads back to the root
Chain(k) ==
    [root |-> IF k = 0 THEN 0 ELSE 1,
     leaves |-> [j \in 1..k |-> IF j < k THEN j + 1 ELSE 0], rootLoop |-> FALSE]
Cycle(k, back) ==
    [root |-> 1, leaves |-> [j \in 1..k |-> IF j < k THEN j + 1 ELSE back],
     rootLoop |-> FALSE]
Dangling(k) ==
    [root |-> 1, leaves |-> [j \in 1..k |-> j + 1], rootLoop |-> FALSE]
RootLoop == [root |-> 1, leaves |-> << >>, rootLoop |-> TRUE]

Links ==
    { Chain(k) : k \in 0..MaxChain }
    \cup { Cycle(k, back) : k \in 1..MaxCycle, back \in 1..MaxCycle }
    \cup { Dangling(1), RootLoop }

\* the one entry of a directory, as serializeDir lays entries out
LinkEntry(link) ==
    IF link = 0 THEN Entry(0, 0, 1, 1) ELSE Entry(0, DirSize * (link - 1), DirSize, 0)

LinkDir(link) == BFromSeq(SerializeDir(<< LinkEntry(link) >>))

RECURSIVE LeafSection(_, _)
LeafSection(leaves, n) ==
    IF n = 0 THEN BEmpty ELSE BCat(LeafSection(leaves, n - 1), LinkDir(leaves[n]))

\* the header of the file: root at 262, the metadata text "" behind it, then
\* the leaf section and one tile of one byte; the six faces share the root
\* and the leaf section
LinkHeader(links) ==
    [specVersion |-> 3,
     rootDirectoryOffset |-> S2_HEADER_SIZE_BYTES,
     rootDirectoryLength |-> DirSize,
     jsonMetadataOffset |-> S2_HEADER_SIZE_BYTES + DirSize,
     jsonMetadataLength |-> 2,
     leafDirectoryOffset |-> IF links.rootLoop THEN S2_HEADER_SIZE_BYTES
                             ELSE S2_HEADER_SIZE_BYTES + DirSize + 2,
     leafDirectoryLength |-> DirSize * Len(links.leaves),
     tileDataOffset |-> S2_HEADER_SIZE_BYTES + DirSize + 2 + DirSize * Len(links.leaves),
     tileDataLength |-> 1,
     numAddressedTiles |-> 1,
     numTileEntries |-> 1,
     numTileContents |-> 1,
     clustered |-> TRUE,
     internalCompression |-> CompressionNone,
     tileCompression |-> CompressionNone,
     tileType |-> TileTypePbf,
     minZoom |-> 0,
     maxZoom |-> MaxZoomIn]

LinkS2Header(h) ==
    h @@
    [rootDirectoryOffset1 |-> h.rootDirectoryOffset, rootDirectoryLength1 |-> DirSize,
     rootDirectoryOffset2 |-> h.rootDirectoryOffset, rootDirectoryLength2 |-> DirSize,
     rootDirectoryOffset3 |-> h.rootDirectoryOffset, rootDirectoryLength3 |-> DirSize,
     rootDirectoryOffset4 |-> h.rootDirectoryOffset, rootDirectoryLength4 |-> DirSize,
     rootDirectoryOffset5 |-> h.rootDirectoryOffset, rootDirectoryLength5 |-> DirSize,
     leafDirectoryOffset1 |-> h.leafDirectoryOffset,
     leafDirectoryLength1 |-> h.leafDirectoryLength,
     leafDirectoryOffset2 |-> h.leafDirectoryOffset,
     leafDirectoryLength2 |-> h.leafDirectoryLength,
     leafDirectoryOffset3 |-> h.leafDirectoryOffset,
     leafDirectoryLength3 |-> h.leafDirectoryLength,
     leafDirectoryOffset4 |-> h.leafDirectoryOffset,
     leafDirectoryLength4 |-> h.leafDirectoryLength,
     leafDirectoryOffset5 |-> h.leafDirectoryOffset,
     leafDirectoryLength5 |-> h.leafDirectoryLength]

\* the bytes of the file behind a header image of 262 bytes
LinkBody(links) ==
    BCat(BCat(BCat(LinkDir(links.root), JsonStringify(0)),
              LeafSection(links.leaves, Len(links.leaves))),
         BFill(1, 7))

LinkedArchive(links, s2) ==
    IF s2
    THEN BCat(BFromSeq(s2HeaderToBytes(LinkS2Header(LinkHeader(links)))), LinkBody(links))
    ELSE BCat(BFromSeq(headerToBytes(LinkHeader(links))
                       \o Zeros(S2_HEADER_SIZE_BYTES - HEADER_SIZE_BYTES)),
              LinkBody(links))

LinkedArchives == { LinkedArchive(links, s2) : links \in Links, s2 \in BOOLEAN }

InitLinked ==
    /\ SetWriterInit(NewWriter(CompressionNone))
    /\ \E bytes \in LinkedArchives : SetReaderInit(NewReader(bytes, DEFAULT_MAX_SIZE))

NextLinked ==
    \/ \E c \in Coords : GetTile(c[1], c[2], c[3])
    \/ \E face \in FacesIn, c \in Coords : GetTileS2(face, c[1], c[2], c[3])

SpecLinked == InitLinked /\ [][NextLinked]_vars

\* C9: bounded directory walk.  On any archive, also one whose leaf pointers
\* form a chain or a cycle, a getTile / getTileS2 call that has ended
\* inspected at most four directories and ended with a tile, with undefined
\* or with an error; it found a leaf pointer in the fourth directory exactly
\* when it failed with the depth-exceeded error.
C9_BoundedWalk ==
    \A c \in Slots :
        rcalls[c].pc \in {"done", "failed"}
        => /\ rcalls[c].inspected <= MAX_DEPTH + 1
           /\ rcalls[c].result.kind \in {"tile", "undefined", "error"}
           /\ rcalls[c].pointers = MAX_DEPTH + 1
              <=> (rcalls[c].result.kind = "error"
                   /\ rcalls[c].result.value = "Maximum directory depth exceeded")

\* a read of an archive with a cycle of leaf pointers has failed with the
\* depth-exceeded error after four directories
C9_Witness ==
    /\ archive \in { LinkedArchive(Cycle(k, back), s2) :
                         k \in 1..MaxCycle, back \in 1..MaxCycle, s2 \in BOOLEAN }
    /\ rcalls[1].pc = "failed"
    /\ rcalls[1].inspected = MAX_DEPTH + 1
    /\ rcalls[1].result.kind = "error"
    /\ rcalls[1].result.value = "Maximum directory depth exceeded"


(***************************************************************************)
(* Overlapping reads: calls on one reader started without awaiting the     *)
(* previous one.  The range provider and the decompressor resolve in any   *)
(* order, so any call in flight may be the next one to resume.             *)
(***************************************************************************)

\* the sink after one awaited write of tile (0, 0, 0) and an awaited commit
\* of empty metadata; face = Undefined: writeTileXYZ
WrittenArchive(face) ==
    commit(RunWrite(BeginWriteTileZXY(NewWriter(CompressionNone), 1, face, 0, 0, 0,
                                      BFill(1, 7)), 1), 0).buffer

WrittenArchives == { WrittenArchive(face) : face \in {Undefined, 0} }

InitOverlapReads ==
    /\ SetWriterInit(NewWriter(CompressionNone))
    /\ \E bytes \in WrittenArchives : SetReaderInit(NewReader(bytes, DEFAULT_MAX_SIZE))

\* the lowest slot that holds no read call yet
FreeReadSlot(c) == rcalls[c].pc = "idle" /\ \A d \in Slots : d < c => rcalls[d].pc # "idle"

\* reader.getHeader(), not awaited
StartGetHeader(c) ==
    /\ FreeReadSlot(c)
    /\ SetReader(BeginRead(Reader, c, "getHeader", Undefined, 0, 0, 0))
    /\ UNCHANGED wvars

\* reader.getMetadata(), not awaited
StartGetMetadata(c) ==
    /\ FreeReadSlot(c)
    /\ SetReader(BeginRead(Reader, c, "getMetadata", Undefined, 0, 0, 0))
    /\ UNCHANGED wvars

\* reader.getTile(zoom, x, y), not awaited
StartGetTile(c, zoom, x, y) ==
    /\ FreeReadSlot(c)
    /\ SetReader(BeginRead(Reader, c, "getTile", -1, zoom, x, y))
    /\ UNCHANGED wvars

\* reader.getTileS2(face, zoom, x, y), not awaited
StartGetTileS2(c, face, zoom, x, y) ==
    /\ FreeReadSlot(c)
    /\ SetReader(BeginRead(Reader, c, "getTileS2", face, zoom, x, y))
    /\ UNCHANGED wvars

\* the promise call c awaits resolves: the call runs up to its next await
ResumeRead(c) ==
    /\ ReadInFlight(rcalls[c])
    /\ SetReader(ReadStep(Reader, archive, c))
    /\ UNCHANGED wvars

NextOverlapReads ==
    \/ \E c \in Slots : StartGetHeader(c)
    \/ \E c \in Slots : StartGetMetadata(c)
    \/ \E c \in Slots, z \in Coords : StartGetTile(c, z[1], z[2], z[3])
    \/ \E c \in Slots, face \in FacesIn, z \in Coords :
           StartGetTileS2(c, face, z[1], z[2], z[3])
    \/ \E c \in Slots : ResumeRead(c)

SpecOverlapReads == InitOverlapReads /\ [][NextOverlapReads]_vars

\* C10: one-shot prelude load.  Over any sequence or interleaving of
\* getHeader, getMetadata, getTile and getTileS2 calls on one reader, the
\* range (0, 98304) is requested at most once, and it is the first range
\* requested.
C10_OneShotPrelude ==
    /\ preludeRequests <= 1
    /\ firstRequest = NoRange \/ firstRequest = << 0, S2_ROOT_SIZE >>

\* two calls started back to back have both returned
C10_Witness ==
    /\ \A c \in Slots : rcalls[c].pc = "done"
    /\ \A c \in Slots : Len(rcalls[c].ranges) > 0 /\ rcalls[c].ranges[1] = << 0, S2_ROOT_SIZE >>


(***************************************************************************)
(* PMTilesWriter, the writer over a file.  It keeps the lists, the cursor  *)
(* and the counters of the writer record; buffer holds the bytes of the    *)
(* file.  appendFile opens the file for appending, writes and closes, so   *)
(* the data of a call lands at the end the file has when the write runs:   *)
(* calls that are not awaited land in any order.  A call with no bytes     *)
(* leaves the file as it is and counts as landed from the start.           *)
(***************************************************************************)

\* hashUint8Array(data): the sha256 digest, which stands for the bytes it was
\* computed from (two byte strings with one digest are not modelled)
hashUint8Array(data) == [sha256 |-> BToSeq(data)]

\* #hashToOffset.get(hsh): the offset, Undefined when absent
RECURSIVE HashGetFrom(_, _, _)
HashGetFrom(map, hsh, i) ==
    IF i > Len(map) THEN Undefined
    ELSE IF map[i].hsh = hsh THEN map[i].offset
    ELSE HashGetFrom(map, hsh, i + 1)

HashGet(map, hsh) == HashGetFrom(map, hsh, 1)

\* #hashToOffset.set(hsh, offset)
HashSet(map, hsh, off) ==
    IF HashGet(map, hsh) = Undefined THEN Append(map, [hsh |-> hsh, offset |-> off])
    ELSE [i \in 1..Len(map) |-> IF map[i].hsh = hsh THEN [hsh |-> hsh, offset |-> off]
                                ELSE map[i]]

\* appendFile(this.file, data) is called: the promise is pending
IssueAppend(w, data) ==
    [w EXCEPT !.appends = Append(@, [data |-> data, landed |-> BLen(data) = 0,
                                     at |-> Undefined])]

\* the write of appendFile call i runs: the data is put at the end of the file
LandAppend(w, i) ==
    [w EXCEPT !.buffer = BufferAppend(@, w.appends[i].data),
              !.appends[i] = [@ EXCEPT !.landed = TRUE, !.at = BLen(w.buffer)]]

\* new PMTilesWriter(file, type) on a new file: the reservation of the
\* prelude is handed to appendFile and not awaited
NewFileWriter ==
    IssueAppend([NewWriter(CompressionNone) EXCEPT !.buffer = BEmpty], BFill(S2_ROOT_SIZE, 0))

\* writeTile throws a TypeError: the call ends, what it changed stays
FileThrow(w, c, tileID, data, face) ==
    [w EXCEPT !.calls[c] = [IdleWrite EXCEPT !.pc = "failed", !.face = face,
                                             !.tileID = tileID, !.raw = data,
                                             !.data = data]]

\* tileEntries.push({ tileID, offset, length, runLength: 1 }) on the list of
\* the face
PushEntry(w, face, entry) ==
    [w EXCEPT !.tileEntries = IF face = Undefined THEN Append(@, entry) ELSE @,
              !.s2tileEntries = IF face # Undefined
                                THEN [@ EXCEPT ![face] = Append(@, entry)] ELSE @]

\* writeTile returns: this.#addressedTiles++
FileDone(w, c, tileID, data, face, entry) ==
    [w EXCEPT !.addressedTiles = @ + 1,
              !.calls[c] = [IdleWrite EXCEPT !.pc = "done", !.face = face,
                                             !.tileID = tileID, !.raw = data,
                                             !.data = data, !.offset = entry.offset],
              !.accepted = Append(@, [face |-> face, tileID |-> tileID, data |-> data,
                                      entry |-> entry])]

\* the branch of writeTile for a payload whose hash is known, stored at off:
\* last is undefined on an empty list, and tileEntries[-1] is undefined on
\* every list, so reading last.tileID and incrementing runLength both throw
FileHit(w, c, tileID, data, face, entries, off) ==
    IF Len(entries) = 0 THEN FileThrow(w, c, tileID, data, face)
    ELSE IF tileID = entries[Len(entries)].tileID + entries[Len(entries)].runLength
            /\ entries[Len(entries)].offset = off
         THEN FileThrow(w, c, tileID, data, face)
    ELSE FileDone(PushEntry(w, face, Entry(tileID, off, BLen(data), 1)), c, tileID, data,
                  face, Entry(tileID, off, BLen(data), 1))

\* the branch for a new payload up to await appendFile(this.file, data)
FileMiss(w, c, tileID, data, face) ==
    [IssueAppend(w, data) EXCEPT
        !.calls[c] = [IdleWrite EXCEPT !.pc = "appendFile", !.face = face,
                                       !.tileID = tileID, !.raw = data, !.data = data,
                                       !.offset = w.offset, !.i = Len(w.appends) + 1]]

\* writeTile once the clustered flag is updated: the hash lookup
FileLookup(w, c, tileID, data, face, entries) ==
    IF HashGet(w.hashToOffset, hashUint8Array(data)) # Undefined
    THEN FileHit(w, c, tileID, data, face, entries,
                 HashGet(w.hashToOffset, hashUint8Array(data)))
    ELSE FileMiss(w, c, tileID, data, face)

\* the list writeTile works on
EntriesOf(w, face) == IF face # Undefined THEN w.s2tileEntries[face] ELSE w.tileEntries

\* PMTilesWriter.writeTile(tileID, data, face) up to its first await or its end
FileBeginWriteTile(w, c, tileID, data, face) ==
    FileLookup([w EXCEPT !.clustered =
                    IF Unordered(EntriesOf(w, face), tileID) THEN FALSE ELSE @],
               c, tileID, data, face, EntriesOf(w, face))

\* writeTile after await appendFile: the entry, the hash and the cursor
FileResumeAppended(w, c) ==
    FileDone([PushEntry(w, w.calls[c].face,
                        Entry(w.calls[c].tileID, w.calls[c].offset,
                              BLen(w.calls[c].data), 1))
                 EXCEPT !.hashToOffset = HashSet(@, hashUint8Array(w.calls[c].data),
                                                 w.offset),
                        !.offset = @ + BLen(w.calls[c].data)],
             c, w.calls[c].tileID, w.calls[c].data, w.calls[c].face,
             Entry(w.calls[c].tileID, w.calls[c].offset, BLen(w.calls[c].data), 1))


\* the root budget the commits of PMTilesWriter hand to optimizeDirectories
FileRootTarget(metauint8) == S2_ROOT_SIZE - S2_HEADER_SIZE_BYTES - BLen(metauint8)

\* tileIDToZxy(tileID)[0]
ZoomOfTile(tileID) == tileIDToZxy(tileID)[1]

\* the commit reaches await open(this.file, 'r+') with its positioned writes
\* still to do
FilePatching(w, header, headerBytes, rootPatches, metauint8) ==
    [w EXCEPT !.header = header,
              !.phase = "committing",
              !.calls[1] = [IdleWrite EXCEPT
                               !.pc = "patch",
                               !.patches = << [data |-> BFromSeq(headerBytes), at |-> 0] >>
                                           \o rootPatches
                                           \o << [data |-> metauint8,
                                                  at |-> header.jsonMetadataOffset] >>]]

\* the header #commit of PMTilesWriter builds; w is the writer before the
\* leaves are appended
FilePlanarHeader(w, opt, metauint8) ==
    [PlanarHeader(w, w.tileEntries, opt, metauint8) EXCEPT
        !.numTileContents = Len(w.hashToOffset),
        !.internalCompression = CompressionNone,
        !.tileCompression = w.compression,
        !.minZoom = ZoomOfTile(w.tileEntries[1].tileID),
        !.maxZoom = ZoomOfTile(w.tileEntries[Len(w.tileEntries)].tileID)]

\* #commit of PMTilesWriter once optimizeDirectories has an answer: the
\* leaves go to appendFile, which is not awaited
FilePlanarPlanned(w, opt, metauint8) ==
    IF ~opt.done THEN [w EXCEPT !.phase = "hung"]
    ELSE FilePatching(
             IssueAppend([w EXCEPT !.offset = @ + BLen(opt.leavesBytes)], opt.leavesBytes),
             FilePlanarHeader(w, opt, metauint8),
             headerToBytes(FilePlanarHeader(w, opt, metauint8)),
             << [data |-> opt.rootBytes, at |-> S2_HEADER_SIZE_BYTES] >>,
             metauint8)

\* PMTilesWriter.#commit(metadata): the entries are serialized in the order
\* of the list
fileCommitPlanar(w, meta) ==
    FilePlanarPlanned(w,
                      optimizeDirectories(w.tileEntries,
                                          FileRootTarget(JsonStringify(meta)),
                                          CompressionNone),
                      JsonStringify(meta))

\* appendFile of the leaf blocks of faces 0 .. f, none awaited
RECURSIVE IssueLeaves(_, _, _)
IssueLeaves(w, leaves, f) ==
    IF f = 0 THEN IssueAppend(w, leaves[0])
    ELSE IssueAppend(IssueLeaves(w, leaves, f - 1), leaves[f])

\* the header #commitS2 of PMTilesWriter builds
FileS2Header(w, roots, leaves, rootOff, leafOff, metauint8) ==
    [S2HeaderOf(w, w.s2tileEntries, roots, leaves, rootOff, leafOff, metauint8) EXCEPT
        !.numTileContents = Len(w.hashToOffset),
        !.internalCompression = CompressionNone,
        !.tileCompression = w.compression,
        !.minZoom = ZoomOfTile(w.s2tileEntries[0][1].tileID),
        !.maxZoom = ZoomOfTile(w.s2tileEntries[0][Len(w.s2tileEntries[0])].tileID)]

\* #commitS2 of PMTilesWriter from the layout on: the six leaf blocks go to
\* appendFile; (tileEntries.at(0) as Entry).tileID throws on an empty list of
\* face 0
FileS2Laid(w, roots, leaves, rootOff, leafOff, metauint8) ==
    IF Len(w.s2tileEntries[0]) = 0
    THEN [IssueLeaves([w EXCEPT !.offset = @ + LengthBefore(leaves, 6)], leaves, 5)
             EXCEPT !.phase = "failed"]
    ELSE FilePatching(
             IssueLeaves([w EXCEPT !.offset = @ + LengthBefore(leaves, 6)], leaves, 5),
             FileS2Header(w, roots, leaves, rootOff, leafOff, metauint8),
             s2HeaderToBytes(FileS2Header(w, roots, leaves, rootOff, leafOff, metauint8)),
             [f \in 1..6 |-> [data |-> roots[f - 1], at |-> rootOff[f - 1]]],
             metauint8)

\* #commitS2 of PMTilesWriter once the six directories are planned
FileS2Planned(w, opt, metauint8) ==
    IF \E f \in Faces : ~opt[f].done THEN [w EXCEPT !.phase = "hung"]
    ELSE FileS2Laid(w, [f \in Faces |-> opt[f].rootBytes],
                    [f \in Faces |-> opt[f].leavesBytes],
                    [f \in Faces |->
                        S2_HEADER_SIZE_BYTES
                        + LengthBefore([g \in Faces |-> opt[g].rootBytes], f)],
                    [f \in Faces |->
                        w.offset + LengthBefore([g \in Faces |-> opt[g].leavesBytes], f)
                        + S2_ROOT_SIZE],
                    metauint8)

\* PMTilesWriter.#commitS2(metadata)
fileCommitS2(w, meta) ==
    FileS2Planned(w,
                  [f \in Faces |->
                      optimizeDirectories(w.s2tileEntries[f],
                                          FileRootTarget(JsonStringify(meta)),
                                          CompressionNone)],
                  JsonStringify(meta))

\* PMTilesWriter.commit(metadata) up to await open
fileCommit(w, meta) ==
    IF Len(w.tileEntries) = 0 THEN fileCommitS2(w, meta) ELSE fileCommitPlanar(w, meta)

\* fileHandle.write(data, 0, data.byteLength, position): the next positioned
\* write of the commit; after the last one the file is closed
FilePatch(w) ==
    [w EXCEPT !.buffer = BufferWrite(@, Head(w.calls[1].patches).data,
                                     Head(w.calls[1].patches).at),
              !.calls[1] = IF Len(w.calls[1].patches) = 1
                           THEN [IdleWrite EXCEPT !.pc = "done"]
                           ELSE [@ EXCEPT !.patches = Tail(@)],
              !.phase = IF Len(w.calls[1].patches) = 1 THEN "committed" ELSE @]


(***************************************************************************)
(* Awaited use of PMTilesWriter: every writeTile and the commit are        *)
(* awaited before the next call; the appendFile calls the writer does not  *)
(* await run whenever the file system gets to them.                        *)
(***************************************************************************)
MaxFileWrites == 2  \* writes accepted by one PMTilesWriter
\* payloads given to PMTilesWriter: none, one byte, two bytes
FilePayloads == { BEmpty, BFill(1, 7), BFill(2, 8) }
\* metadata values (number of letters): small, and one that leaves the root
\* directory a target of 8 bytes
FileMetas == { 0, 98032 }

InitFile ==
    /\ SetWriterInit(NewFileWriter)
    /\ SetReaderInit(NewReader(BEmpty, DEFAULT_MAX_SIZE))

CanWriteFile == wphase = "open" /\ NoWriteInFlight /\ Len(accepted) < MaxFileWrites

\* PMTilesWriter.writeTileXYZ / writeTileS2 up to the first await or the end
\* (face = Undefined for XYZ)
FileBeginWriteTileZXY(w, c, face, zoom, x, y, data) ==
    IF zxyToTileID(zoom, x, y).ok
    THEN FileBeginWriteTile(w, c, zxyToTileID(zoom, x, y).id, data, face)
    ELSE FileThrow(w, c, 0, data, face)

\* await writer.writeTileXYZ(zoom, x, y, data), up to await appendFile
FileWriteTileXYZ(zoom, x, y, data) ==
    /\ CanWriteFile
    /\ SetWriter(FileBeginWriteTileZXY(Writer, 1, Undefined, zoom, x, y, data))
    /\ UNCHANGED rvars

\* await writer.writeTileS2(face, zoom, x, y, data), up to await appendFile
FileWriteTileS2(face, zoom, x, y, data) ==
    /\ CanWriteFile
    /\ SetWriter(FileBeginWriteTileZXY(Writer, 1, face, zoom, x, y, data))
    /\ UNCHANGED rvars

\* the file system runs the write of one pending appendFile call
FileLand(i) ==
    /\ i \in 1..Len(appends)
    /\ ~appends[i].landed
    /\ SetWriter(LandAppend(Writer, i))
    /\ UNCHANGED rvars

\* the appendFile awaited by writeTile has resolved: the call runs to its end
FileResumeWrite ==
    /\ wcalls[1].pc = "appendFile"
    /\ appends[wcalls[1].i].landed
    /\ SetWriter(FileResumeAppended(Writer, 1))
    /\ UNCHANGED rvars

\* await writer.commit(metadata), up to await open(this.file, 'r+')
FileCommit(meta) ==
    /\ wphase = "open"
    /\ NoWriteInFlight
    /\ SetWriter(fileCommit(Writer, meta))
    /\ UNCHANGED rvars

\* the next await fileHandle.write of the commit
FilePatchStep ==
    /\ wphase = "committing"
    /\ wcalls[1].pc = "patch"
    /\ SetWriter(FilePatch(Writer))
    /\ UNCHANGED rvars

NextFile ==
    \/ \E c \in Coords, data \in FilePayloads : FileWriteTileXYZ(c[1], c[2], c[3], data)
    \/ \E face \in FacesIn, c \in Coords, data \in FilePayloads :
           FileWriteTileS2(face, c[1], c[2], c[3], data)
    \/ \E i \in 1..(MaxFileWrites + 7) : FileLand(i)
    \/ FileResumeWrite
    \/ \E meta \in FileMetas : FileCommit(meta)
    \/ FilePatchStep

SpecFile == InitFile /\ [][NextFile]_vars


(***************************************************************************)
(* Deduplication and run lengths.                                          *)
(***************************************************************************)
\* the bytes writeTile stores for accepted write i
StoredPayload(i) == compress(accepted[i].data, compression).data

\* accepted write i brought a payload no earlier accepted write had
FirstOfPayload(i) == \A j \in 1..(i - 1) : StoredPayload(j) # StoredPayload(i)

\* the lengths of the distinct payloads among the accepted writes 1 .. n
RECURSIVE DistinctPayloadBytes(_)
DistinctPayloadBytes(n) ==
    IF n = 0 THEN 0
    ELSE DistinctPayloadBytes(n - 1)
         + (IF FirstOfPayload(n) THEN BLen(StoredPayload(n)) ELSE 0)

\* two accepted writes of distinct tile IDs with byte-identical payloads
SamePayloadPairs ==
    { p \in (1..Len(accepted)) \X (1..Len(accepted)) :
        /\ accepted[p[1]].tileID # accepted[p[2]].tileID
        /\ StoredPayload(p[1]) = StoredPayload(p[2]) }

\* C11: dedup law.  After any sequence of awaited writes, the entries of
\* distinct tile IDs whose stored payloads are byte-identical carry the same
\* (offset, length), and the payload bytes were appended to the sink once:
\* the cursor has advanced by the lengths of the distinct payloads only.
C11_DedupLaw ==
    NoWriteInFlight
    => /\ \A p \in SamePayloadPairs :
              /\ accepted[p[1]].entry.offset = accepted[p[2]].entry.offset
              /\ accepted[p[1]].entry.length = accepted[p[2]].entry.length
       /\ wphase = "open" => offset = DistinctPayloadBytes(Len(accepted))

\* two tile IDs were written with one payload, and both writes were accepted
C11_Witness ==
    /\ NoWriteInFlight /\ wphase = "open"
    /\ SamePayloadPairs # {}


\* the list of a face after a hit as the merge rule describes it
MergedOrPushed(entries, tileID, off, length) ==
    IF Len(entries) > 0
       /\ entries[Len(entries)].tileID + entries[Len(entries)].runLength = tileID
       /\ entries[Len(entries)].offset = off
    THEN [entries EXCEPT ![Len(entries)].runLength = @ + 1]
    ELSE Append(entries, Entry(tileID, off, length, 1))

\* this step is an awaited writeTile of PMTilesWriter, from its call to its
\* first await or its end, for a payload that is already stored
HitStep ==
    /\ wphase = "open" /\ wphase' = "open"
    /\ NoWriteInFlight
    /\ wcalls'[1] # wcalls[1]
    /\ HashGet(hashToOffset, hashUint8Array(wcalls'[1].data)) # Undefined

\* C12: run-length merge on a dedup hit.  When writeTile receives a payload
\* that is already stored, the last entry of the face's list is extended by
\* one when it ends right before the tile ID and points at the stored offset;
\* otherwise (also on an empty list) one entry with runLength 1 at the stored
\* offset is added.  Either way the call succeeds, no appendFile is issued,
\* the cursor stays and the addressed-tile counter grows by one.
C12_MergeOnHit ==
    [][HitStep =>
          /\ wcalls'[1].pc = "done"
          /\ appends' = appends /\ offset' = offset /\ buffer' = buffer
          /\ addressedTiles' = addressedTiles + 1
          /\ (IF wcalls'[1].face = Undefined THEN tileEntries'
              ELSE s2tileEntries'[wcalls'[1].face])
             = MergedOrPushed(EntriesOf(Writer, wcalls'[1].face), wcalls'[1].tileID,
                              HashGet(hashToOffset, hashUint8Array(wcalls'[1].data)),
                              BLen(wcalls'[1].data))]_vars

\* a writeTile for a stored payload, on a list whose last entry ends right
\* before the tile ID and points at the stored offset, has ended
C12_Witness ==
    /\ wphase = "open"
    /\ wcalls[1].pc \in {"done", "failed"}
    /\ Len(EntriesOf(Writer, wcalls[1].face)) > 0
    /\ LET last == EntriesOf(Writer, wcalls[1].face)[Len(EntriesOf(Writer, wcalls[1].face))]
       IN /\ last.tileID + last.runLength = wcalls[1].tileID
          /\ last.offset = HashGet(hashToOffset, hashUint8Array(wcalls[1].data))


(***************************************************************************)
(* One session of S2PMTilesWriter with payloads that may be empty: awaited *)
(* writes, then the commit.                                                *)
(***************************************************************************)
\* payloads: no bytes, one byte
WriterPayloads == { BEmpty, BFill(1, 7) }
\* metadata values (number of letters): small, and one that leaves the root
\* directory a target of 5 bytes
WriterMetas == { 0, 16115 }

NextWriter ==
    \/ \E c \in Coords, data \in WriterPayloads : WriteTileXYZ(c[1], c[2], c[3], data)
    \/ \E face \in FacesIn, c \in Coords, data \in WriterPayloads :
           WriteTileS2(face, c[1], c[2], c[3], data)
    \/ \E meta \in WriterMetas : Commit(meta)

SpecWriter == Init /\ [][NextWriter]_vars

\* e2 could be folded into e1 by the run-length rule
Mergeable(e1, e2) ==
    /\ e2.tileID = e1.tileID + e1.runLength
    /\ e2.offset = e1.offset
    /\ e2.length = e1.length

NoMergeablePair(entries) ==
    \A i \in 1..(Len(entries) - 1) : ~Mergeable(entries[i], entries[i + 1])

\* C13: run-length law.  In a committed archive no directory holds two
\* adjacent entries e1, e2 with e2.tileID = e1.tileID + e1.runLength and the
\* same (offset, length), whatever the write order and the payloads, empty
\* payloads included.  (commit serializes each list in its order, and at
\* these sizes a list goes into one directory, the root or a single leaf.)
C13_RunLengthLaw ==
    wphase = "committed"
    => /\ NoMergeablePair(tileEntries)
       /\ \A f \in Faces : NoMergeablePair(s2tileEntries[f])

\* a committed archive with a list of two entries, one of them for an empty
\* payload
C13_Witness ==
    /\ wphase = "committed"
    /\ \E f \in FaceArgs :
           /\ Len(EntriesOf(Writer, f)) = 2
           /\ \E i \in 1..2 : EntriesOf(Writer, f)[i].length = 0


StrictlyAscending(entries) ==
    \A i \in 1..(Len(entries) - 1) : entries[i].tileID < entries[i + 1].tileID

\* C14: sorted directories.  In every directory written by commit the tile
\* IDs are strictly ascending, whatever the order of the writes and also when
\* a tile ID was written more than once.  (commit serializes each list in its
\* order, and at these sizes a list goes into one directory.)
C14_SortedDirectories ==
    wphase = "committed"
    => /\ StrictlyAscending(tileEntries)
       /\ \A f \in Faces : StrictlyAscending(s2tileEntries[f])

\* a committed archive after two accepted writes of one tile ID on one face
C14_Witness ==
    /\ wphase = "committed"
    /\ Len(accepted) = 2
    /\ accepted[1].face = accepted[2].face
    /\ accepted[1].tileID = accepted[2].tileID


\* the sum of runLength over a list
RECURSIVE SumRunLength(_, _)
SumRunLength(entries, n) ==
    IF n = 0 THEN 0 ELSE SumRunLength(entries, n - 1) + entries[n].runLength

\* the sum of runLength over the planar list and the six face lists
TotalRunLength ==
    SumRunLength(tileEntries, Len(tileEntries))
    + SumTo([f \in 1..6 |-> SumRunLength(s2tileEntries[f - 1], Len(s2tileEntries[f - 1]))], 6)

\* C15: addressed-tile counter.  In every state reached by awaited writeTile
\* calls the counter of the writer equals the sum of runLength over all
\* entries of all lists, and commit records that value as numAddressedTiles.
C15_AddressedTiles ==
    /\ (wphase = "open" /\ NoWriteInFlight) => addressedTiles = TotalRunLength
    /\ wphase = "committed"
       => /\ addressedTiles = TotalRunLength
          /\ wheader.numAddressedTiles = TotalRunLength

\* a committed archive after two accepted writes on two different lists
C15_Witness ==
    /\ wphase = "committed"
    /\ Len(accepted) = 2
    /\ accepted[1].face # accepted[2].face
    /\ wheader.numAddressedTiles = 2


\* the accepted writes on the list of face, by position in accepted
WritesOn(face) == { i \in 1..Len(accepted) : accepted[i].face = face }

\* on every list the tile IDs were supplied in non-decreasing order
SuppliedInOrder ==
    \A face \in FaceArgs :
        \A i, j \in WritesOn(face) : i < j => accepted[i].tileID <= accepted[j].tileID

Landed(i) == appends[i].landed /\ BLen(appends[i].data) > 0

\* the commit has done at least one of its positioned writes
PatchBegun ==
    \/ wphase = "committed"
    \/ /\ wphase = "committing"
       /\ Len(wcalls[1].patches) < (IF Len(tileEntries) = 0 THEN 8 ELSE 3)

\* C17: write ordering.  The reservation of the prelude made by the
\* constructor is in the file before any tile payload, the appended blocks
\* lie in the file in the order of their calls, and every append, the leaf
\* blocks of commit included, has completed before commit does its positioned
\* writes of the header, the root directories and the metadata.
C17_WriteOrdering ==
    /\ \A i \in 2..Len(appends) : Landed(i) => (appends[1].landed /\ appends[1].at = 0)
    /\ \A i, j \in 1..Len(appends) :
           (i < j /\ Landed(i) /\ Landed(j)) => appends[i].at < appends[j].at
    /\ PatchBegun => \A i \in 1..Len(appends) : appends[i].landed

\* the payload of the first writeTile is in the file
C17_Witness ==
    /\ Len(appends) >= 2
    /\ Landed(2)
    /\ Len(accepted) >= 1


(***************************************************************************)
(* Layout of the prelude.                                                  *)
(***************************************************************************)
\* the header of a cubic archive lists its six roots one after the other,
\* and the metadata after the last of them
RootsContiguous(h) ==
    /\ h.rootDirectoryOffset1 = h.rootDirectoryOffset + h.rootDirectoryLength
    /\ h.rootDirectoryOffset2 = h.rootDirectoryOffset1 + h.rootDirectoryLength1
    /\ h.rootDirectoryOffset3 = h.rootDirectoryOffset2 + h.rootDirectoryLength2
    /\ h.rootDirectoryOffset4 = h.rootDirectoryOffset3 + h.rootDirectoryLength3
    /\ h.rootDirectoryOffset5 = h.rootDirectoryOffset4 + h.rootDirectoryLength4
    /\ h.jsonMetadataOffset = h.rootDirectoryOffset5 + h.rootDirectoryLength5

\* the committed archive is a planar one (commit takes the planar path when
\* any planar tile was written)
CommittedPlanar == wphase = "committed" /\ Len(tileEntries) > 0
CommittedCubic == wphase = "committed" /\ Len(tileEntries) = 0

\* the roots and the metadata follow one another without a gap
PreludePacked ==
    /\ CommittedPlanar
       => wheader.jsonMetadataOffset
          = wheader.rootDirectoryOffset + wheader.rootDirectoryLength
    /\ CommittedCubic => RootsContiguous(wheader)

\* C18 as stated: prelude layout.  After commit the first root directory
\* starts right after the fixed header of the flavor of the archive, at 127
\* in a planar and at 262 in a cubic archive; the six roots of a cubic
\* archive are contiguous in face order; the metadata starts where the last
\* root ends.
C18_PreludeLayoutByFlavor ==
    /\ CommittedPlanar => wheader.rootDirectoryOffset = HEADER_SIZE_BYTES
    /\ CommittedCubic => wheader.rootDirectoryOffset = S2_HEADER_SIZE_BYTES
    /\ PreludePacked

\* C18 amended: prelude layout.  After commit the first root directory
\* starts at 262, after the room of the cubic header, in a planar and in a
\* cubic archive alike; the six roots of a cubic archive are contiguous in
\* face order; the metadata starts where the last root ends.
C18_PreludeLayout ==
    /\ wphase = "committed" => wheader.rootDirectoryOffset = S2_HEADER_SIZE_BYTES
    /\ PreludePacked

\* a committed cubic archive with entries on two faces: roots of different
\* lengths
C18_Witness ==
    /\ CommittedCubic
    /\ wheader.rootDirectoryLength # wheader.rootDirectoryLength2
    /\ wheader.rootDirectoryLength1 # wheader.rootDirectoryLength2


(***************************************************************************)
(* A DirCache used on its own: set, get and delete calls on a cache that   *)
(* starts empty.                                                           *)
(***************************************************************************)
MaxCapacity == 2    \* the largest maxSize given to the constructor
MaxKey == 3         \* keys are 1 .. MaxKey
MaxCacheOps == 4    \* calls made on one cache
CacheKeys == 1..MaxKey
\* the directories stored: one entry each, told apart by the tile ID
CacheDirs == { << Entry(t, 0, 1, 1) >> : t \in 0..1 }

InitCache ==
    /\ SetWriterInit(NewWriter(CompressionNone))
    /\ \E maxSize \in 1..MaxCapacity : SetReaderInit(NewReader(BEmpty, maxSize))

\* the reader record after a call on the cache, logged with what it returned
CacheCall(op, key, dir, after, result) ==
    [Reader EXCEPT !.dirCache = after,
                   !.cacheOps = Append(@, [op |-> op, key |-> key, dir |-> dir,
                                           result |-> result])]

\* cache.set(key, dir)
DoCacheSet(key, dir) ==
    /\ Len(cacheOps) < MaxCacheOps
    /\ SetReader(CacheCall("set", key, dir, CacheSet(dirCache, key, dir),
                            [kind |-> "this", value |-> << >>]))
    /\ UNCHANGED wvars

\* cache.get(key)
DoCacheGet(key) ==
    /\ Len(cacheOps) < MaxCacheOps
    /\ SetReader(CacheCall("get", key, << >>, CacheGet(dirCache, key),
                            CacheGetValue(dirCache, key)))
    /\ UNCHANGED wvars

\* cache.delete(key)
DoCacheDelete(key) ==
    /\ Len(cacheOps) < MaxCacheOps
    /\ SetReader(CacheCall("delete", key, << >>, CacheDelete(dirCache, key),
                            [kind |-> IF CacheHas(dirCache, key) THEN "true" ELSE "false",
                             value |-> << >>]))
    /\ UNCHANGED wvars

NextCache ==
    \/ \E key \in CacheKeys, dir \in CacheDirs : DoCacheSet(key, dir)
    \/ \E key \in CacheKeys : DoCacheGet(key)
    \/ \E key \in CacheKeys : DoCacheDelete(key)

SpecCache == InitCache /\ [][NextCache]_vars

SeqRange(s) == { s[i] : i \in 1..Len(s) }
SeqWithout(s, key) == SelectSeq(s, LAMBDA k : k # key)
FirstN(s, n) == SubSeq(s, 1, Min(Len(s), n))

\* the keys a least-recently-used cache of capacity maxSize holds after the
\* first n logged calls, most recently touched first
RECURSIVE LruOrder(_)
LruOrder(n) ==
    IF n = 0 THEN << >>
    ELSE IF cacheOps[n].op = "set"
         THEN FirstN(<< cacheOps[n].key >> \o SeqWithout(LruOrder(n - 1), cacheOps[n].key),
                     dirCache.maxSize)
    ELSE IF cacheOps[n].op = "get" /\ cacheOps[n].key \in SeqRange(LruOrder(n - 1))
         THEN << cacheOps[n].key >> \o SeqWithout(LruOrder(n - 1), cacheOps[n].key)
    ELSE IF cacheOps[n].op = "delete" THEN SeqWithout(LruOrder(n - 1), cacheOps[n].key)
    ELSE LruOrder(n - 1)

\* the directory last set for key among the first n logged calls
RECURSIVE LastSet(_, _)
LastSet(n, key) ==
    IF n = 0 THEN << >>
    ELSE IF cacheOps[n].op = "set" /\ cacheOps[n].key = key THEN cacheOps[n].dir
    ELSE LastSet(n - 1, key)

OnlySetAndGet == \A i \in 1..Len(cacheOps) : cacheOps[i].op \in {"set", "get"}
KeysSet == { cacheOps[i].key : i \in { j \in 1..Len(cacheOps) : cacheOps[j].op = "set" } }

\* C19: LRU content.  After any sequence of set and get calls on a cache of
\* capacity N >= 1 that started empty, the keys present are the min(N, d)
\* most recently touched of the d distinct keys touched (a set, or a get of a
\* present key, is a touch); get returns the directory last set for a present
\* key and undefined for an absent one.
C19_LruContent ==
    OnlySetAndGet
    => /\ DOMAIN dirCache.map = SeqRange(LruOrder(Len(cacheOps)))
       /\ Cardinality(DOMAIN dirCache.map) = Min(dirCache.maxSize, Cardinality(KeysSet))
       /\ \A i \in 1..Len(cacheOps) :
              cacheOps[i].op = "get"
              => cacheOps[i].result
                 = (IF cacheOps[i].key \in SeqRange(LruOrder(i - 1))
                    THEN [kind |-> "dir", value |-> LastSet(i - 1, cacheOps[i].key)]
                    ELSE [kind |-> "undefined", value |-> << >>])

\* a full cache of capacity 2 after three keys were set and an older key was
\* read in between: the key that was read is still present
C19_Witness ==
    /\ OnlySetAndGet
    /\ dirCache.maxSize = 2
    /\ Len(cacheOps) = 4
    /\ cacheOps[3].op = "get" /\ cacheOps[3].key = cacheOps[1].key
    /\ cacheOps[3].result.kind = "dir"
    /\ cacheOps[4].op = "set"
    /\ Cardinality(KeysSet) = 3
    /\ cacheOps[1].key \in DOMAIN dirCache.map


\* the order lists the keys of the map, each of them once
OrderMatchesMap(cache) ==
    /\ SeqRange(cache.order) = DOMAIN cache.map
    /\ Len(cache.order) = Cardinality(DOMAIN cache.map)

\* this step is a set on a cache that holds fewer entries than its capacity
SetBelowCapacity ==
    /\ Len(cacheOps') = Len(cacheOps) + 1
    /\ cacheOps'[Len(cacheOps')].op = "set"
    /\ Cardinality(DOMAIN dirCache.map) < dirCache.maxSize

\* C20: delete keeps the map and the order consistent.  After every set, get
\* and delete the order lists exactly the keys of the map, each once, and a
\* set on a cache with fewer than N entries evicts nothing.
C20_DeleteConsistent ==
    [][/\ OrderMatchesMap(dirCache')
       /\ SetBelowCapacity => DOMAIN dirCache.map \subseteq DOMAIN dirCache'.map]_vars

\* a key was deleted while present, and a set came after it
C20_Witness ==
    /\ \E i \in 1..Len(cacheOps) :
           /\ cacheOps[i].op = "delete" /\ cacheOps[i].result.kind = "true"
           /\ \E j \in (i + 1)..Len(cacheOps) : cacheOps[j].op = "set"


(***************************************************************************)
(* A DirCache of any capacity, zero included.                              *)
(***************************************************************************)
InitCacheAny ==
    /\ SetWriterInit(NewWriter(CompressionNone))
    /\ \E maxSize \in 0..MaxCapacity : SetReaderInit(NewReader(BEmpty, maxSize))

SpecCacheAny == InitCacheAny /\ [][NextCache]_vars

\* C21: LRU capacity bound.  For every capacity N >= 0 given to the
\* constructor, after any sequence of set, get and delete the cache holds at
\* most N entries.
C21_CapacityBound == Cardinality(DOMAIN dirCache.map) <= dirCache.maxSize

\* a set on a cache of capacity 0 has returned
C21_Witness ==
    /\ dirCache.maxSize = 0
    /\ Len(cacheOps) >= 1
    /\ cacheOps[Len(cacheOps)].op = "set"


(***************************************************************************)
(* Awaited writes with coordinates that zxyToTileID rejects among them.    *)
(***************************************************************************)
\* a zoom above MAX_ZOOM, a column and a row outside the zoom
InvalidCoords == { << MAX_ZOOM + 1, 0, 0 >>, << 0, 1, 0 >>, << 1, 2, 0 >>, << 1, 0, 2 >> }
AnyCoords == Coords \cup InvalidCoords

NextInvalid ==
    \/ \E c \in AnyCoords : WriteTileXYZ(c[1], c[2], c[3], BFill(1, 7))
    \/ \E face \in FacesIn, c \in AnyCoords : WriteTileS2(face, c[1], c[2], c[3], BFill(1, 7))
    \/ Commit(0)

SpecInvalid == Init /\ [][NextInvalid]_vars

\* this step is a write call that ended with an error
FailedWriteStep == wphase = "open" /\ wphase' = "open" /\ wcalls'[1].pc = "failed"

\* C22: invalid coordinates fail the call only.  A writeTileXYZ / writeTileS2
\* with a zoom above 26 or with x or y outside the zoom fails, and the failed
\* call leaves the entry lists, the cursor, the addressed-tile counter, the
\* clustered flag and the zoom bounds of the writer as they were.
C22_InvalidCoordinates ==
    [][FailedWriteStep
       => UNCHANGED << tileEntries, s2tileEntries, offset, addressedTiles, clustered,
                       minZoom, maxZoom, buffer >>]_vars

\* a write with rejected coordinates has failed after an accepted write
C22_Witness ==
    /\ wphase = "open"
    /\ wcalls[1].pc = "failed"
    /\ Len(accepted) = 1


(***************************************************************************)
(* The exported functions called on their own: an action applies one       *)
(* function to inputs drawn from a bounded set and keeps the call.         *)
(***************************************************************************)
\* fn(args) has returned result (or thrown: result.ok = FALSE)
LibCall(fn, args, result) == [fn |-> fn, args |-> args, result |-> result]

MaxBytes == 3       \* the longest byte string handed to a codec
\* the compression tags of the enum, and one number that is no tag of it
CompressionTags == CompressionUnknown..(CompressionZstd + 1)
\* byte strings of one repeated byte, and the gzip framing of each
PlainInputs == { BFill(n, b) : n \in 0..MaxBytes, b \in {7, 31} }
CodecInputs == PlainInputs \cup { compressGzip(d) : d \in PlainInputs }

\* await compress(input, compression)
CallCompress(input, tag) ==
    /\ libCall' = LibCall("compress", << input, tag >>, compress(input, tag))
    /\ UNCHANGED << wvars, readerVars >>

\* await decompress(data, compression)
CallDecompress(data, tag) ==
    /\ libCall' = LibCall("decompress", << data, tag >>, decompress(data, tag))
    /\ UNCHANGED << wvars, readerVars >>

NextCodec ==
    \/ \E input \in CodecInputs, tag \in CompressionTags : CallCompress(input, tag)
    \/ \E data \in CodecInputs, tag \in CompressionTags : CallDecompress(data, tag)

SpecCodec == Init /\ [][NextCodec]_vars

\* C23: unsupported compression is an error in both directions.  compress
\* and decompress fail for the tag Unknown and for every tag without a
\* codec; with the tag None they return their input; no other tag is the
\* identity.
C23_UnsupportedCompression ==
    libCall.fn \in {"compress", "decompress"}
    => /\ libCall.args[2] = CompressionNone
          => (libCall.result.ok /\ libCall.result.data = libCall.args[1])
       /\ libCall.args[2] \notin {CompressionNone, CompressionGzip} => ~libCall.result.ok
       /\ (libCall.args[2] = CompressionGzip /\ libCall.result.ok)
          => libCall.result.data # libCall.args[1]

\* decompress was called with the tag Unknown on a byte string that is not
\* empty
C23_Witness ==
    /\ libCall.fn = "decompress"
    /\ libCall.args[2] = CompressionUnknown
    /\ BLen(libCall.args[1]) > 0


(***************************************************************************)
(* A reader over a prelude that is no header: a committed archive whose    *)
(* magic bytes or whose version byte were overwritten.                     *)
(***************************************************************************)
\* [data, at]: two bytes that are neither "PM" nor "S2" at 0, or a version
\* that no writer produces at 7
HeaderDamages ==
    { [data |-> BFill(2, 88), at |-> 0],
      [data |-> BCat(BFill(1, 80), BFill(1, 88)), at |-> 0],
      [data |-> BCat(BFill(1, 83), BFill(1, 88)), at |-> 0],
      [data |-> BFill(1, 0), at |-> 7],
      [data |-> BFill(1, 9), at |-> 7] }

MalformedArchives ==
    { BufferWrite(bytes, d.data, d.at) : bytes \in WrittenArchives, d \in HeaderDamages }

InitMalformed ==
    /\ SetWriterInit(NewWriter(CompressionNone))
    /\ \E bytes \in MalformedArchives : SetReaderInit(NewReader(bytes, DEFAULT_MAX_SIZE))

NextMalformed ==
    \/ GetHeader
    \/ GetMetadata
    \/ \E c \in Coords : GetTile(c[1], c[2], c[3])
    \/ \E face \in FacesIn, c \in Coords : GetTileS2(face, c[1], c[2], c[3])

SpecMalformed == InitMalformed /\ [][NextMalformed]_vars

\* C24: malformed header is rejected.  Over a prelude whose first two bytes
\* are neither "PM" nor "S2", or whose version is unknown, the load fails,
\* and so does every later call on the reader: no call returns a value.
C24_MalformedHeaderRejected ==
    \A c \in Slots : rcalls[c].pc # "done"

\* getHeader has ended on a reader over a damaged prelude
C24_Witness ==
    /\ ReadReturned
    /\ LastRead.kind = "getHeader"


(***************************************************************************)
(* Archives with a leaf directory of zero entries: the root holds the tile *)
(* of ID 0 and a leaf pointer for every ID from 1 on; the pointer starts a *)
(* chain of depth leaves whose last one is the empty directory, or, for    *)
(* comparison, a directory with the tile of IDs 1..4.                      *)
(***************************************************************************)
\* the loop of #getTile reaches the leaves of depth 1..MAX_DEPTH
ChainDepths == 1..MAX_DEPTH

EmptyDirectory == SerializeDir(<< >>)
TileDirectory == SerializeDir(<< Entry(1, 0, 1, 4) >>)

\* leaf j of a chain of depth leaves that ends in the directory last
ChainLeaf(j, depth, last) ==
    IF j = depth THEN last
    ELSE SerializeDir(<< Entry(1, j * DirSize,
                               IF j + 1 = depth THEN Len(last) ELSE DirSize, 0) >>)

RECURSIVE ChainLeaves(_, _, _)
ChainLeaves(n, depth, last) ==
    IF n = 0 THEN << >> ELSE ChainLeaves(n - 1, depth, last) \o ChainLeaf(n, depth, last)

ChainRoot(depth, last) ==
    SerializeDir(<< Entry(0, 0, 1, 1),
                    Entry(1, 0, IF depth = 1 THEN Len(last) ELSE DirSize, 0) >>)

ChainHeader(depth, last) ==
    LET root == Len(ChainRoot(depth, last))
        leaves == Len(ChainLeaves(depth, depth, last))
    IN [LinkHeader(Chain(0)) EXCEPT
            !.rootDirectoryLength = root,
            !.jsonMetadataOffset = S2_HEADER_SIZE_BYTES + root,
            !.leafDirectoryOffset = S2_HEADER_SIZE_BYTES + root + 2,
            !.leafDirectoryLength = leaves,
            !.tileDataOffset = S2_HEADER_SIZE_BYTES + root + 2 + leaves]

ChainS2Header(h) ==
    [LinkS2Header(h) EXCEPT !.rootDirectoryLength1 = h.rootDirectoryLength,
                            !.rootDirectoryLength2 = h.rootDirectoryLength,
                            !.rootDirectoryLength3 = h.rootDirectoryLength,
                            !.rootDirectoryLength4 = h.rootDirectoryLength,
                            !.rootDirectoryLength5 = h.rootDirectoryLength]

ChainBody(depth, last) ==
    BCat(BCat(BFromSeq(ChainRoot(depth, last)), JsonStringify(0)),
         BCat(BFromSeq(ChainLeaves(depth, depth, last)), BFill(1, 7)))

ChainArchive(depth, last, s2) ==
    IF s2
    THEN BCat(BFromSeq(s2HeaderToBytes(ChainS2Header(ChainHeader(depth, last)))),
              ChainBody(depth, last))
    ELSE BCat(BFromSeq(headerToBytes(ChainHeader(depth, last))
                       \o Zeros(S2_HEADER_SIZE_BYTES - HEADER_SIZE_BYTES)),
              ChainBody(depth, last))

EmptyLeafArchives ==
    { ChainArchive(depth, EmptyDirectory, s2) : depth \in ChainDepths, s2 \in BOOLEAN }
TileLeafArchives ==
    { ChainArchive(depth, TileDirectory, s2) : depth \in ChainDepths, s2 \in BOOLEAN }

InitEmptyLeaf ==
    /\ SetWriterInit(NewWriter(CompressionNone))
    /\ \E bytes \in EmptyLeafArchives \cup TileLeafArchives :
           SetReaderInit(NewReader(bytes, DEFAULT_MAX_SIZE))

NextEmptyLeaf ==
    \/ GetHeader
    \/ GetMetadata
    \/ \E c \in Coords : GetTile(c[1], c[2], c[3])
    \/ \E face \in FacesIn, c \in Coords : GetTileS2(face, c[1], c[2], c[3])

SpecEmptyLeaf == InitEmptyLeaf /\ [][NextEmptyLeaf]_vars

\* the directories the cache holds
CachedDirectories == { dirCache.map[key] : key \in DOMAIN dirCache.map }

\* the last call asked for a tile whose ID the root hands to the leaf chain
AskedBelowRoot ==
    /\ ReadReturned
    /\ LastRead.kind \in {"getTile", "getTileS2"}
    /\ LastRead.kind = "getTileS2" => IsS2(archive)
    /\ ReadTileID >= 1

\* C25: in an archive whose leaf chain ends in a directory of zero entries,
\* a lookup that reaches that directory throws 'Empty directory is invalid'
\* (it does not return undefined), no directory of zero entries is in the
\* cache, and the lookup of the root's own tile still returns the tile
C25_EmptyLeafFatal ==
    archive \in EmptyLeafArchives =>
        /\ AskedBelowRoot =>
               /\ LastRead.pc = "failed"
               /\ LastRead.result.value = "Empty directory is invalid"
        /\ << >> \notin CachedDirectories
        /\ (ReadReturned /\ LastRead.kind = "getTile" /\ ReadTileID = 0) =>
               ReturnedTile(BFill(1, 7))

\* the root's tile is returned after a lookup that failed in the empty leaf
\* (the cache holds the leaf the failed walk passed through)
C25_Witness ==
    /\ archive \in EmptyLeafArchives
    /\ CachedDirectories # {}
    /\ LastRead.kind = "getTile"
    /\ ReadTileID = 0
    /\ ReturnedTile(BFill(1, 7))


(***************************************************************************)
(* The two public lookups side by side: getTile(zoom, x, y) is awaited in  *)
(* slot 1, then getTileS2(0, zoom, x, y) in slot 2, over the archive of a  *)
(* writer session.                                                         *)
(***************************************************************************)
\* const a = await reader.getTile(zoom, x, y);
\* const b = await reader.getTileS2(0, zoom, x, y);
GetTileBothWays(zoom, x, y) ==
    /\ CanRead
    /\ SetReader(RunRead(BeginRead(RunRead(BeginRead(Reader, 1, "getTile", -1, zoom, x, y),
                                           archive, 1),
                                   2, "getTileS2", 0, zoom, x, y),
                         archive, 2))
    /\ UNCHANGED wvars

NextRoots ==
    \/ \E c \in Coords, data \in Payloads : WriteTileXYZ(c[1], c[2], c[3], data)
    \/ \E face \in FacesIn, c \in Coords, data \in Payloads :
           WriteTileS2(face, c[1], c[2], c[3], data)
    \/ \E meta \in Metas : Commit(meta)
    \/ OpenReader
    \/ \E c \in Coords : GetTileBothWays(c[1], c[2], c[3])

SpecRoots == Init /\ [][NextRoots]_vars

\* both lookups of the last pair have ended
BothReturned == /\ rcalls[1].pc \in {"done", "failed"}
                /\ rcalls[2].pc \in {"done", "failed"}

\* C26: getTileS2(0, zoom, x, y) ends as getTile(zoom, x, y) does, with the
\* same result, in a planar archive and in a cubic one
C26_FaceZeroIsPlanarRoot ==
    BothReturned => /\ rcalls[2].pc = rcalls[1].pc
                    /\ rcalls[2].result.kind = rcalls[1].result.kind
                    /\ rcalls[2].result = rcalls[1].result

\* in a cubic archive the two lookups return the same tile
C26_Witness ==
    /\ BothReturned
    /\ IsS2(archive)
    /\ rcalls[1].result.kind = "tile"
    /\ rcalls[2].result = rcalls[1].result


(***************************************************************************)
(* findTile alone, over small directories: tile IDs strictly ascending,    *)
(* runs of tile entries at least 1 long and ending before the next entry   *)
(* starts, leaf pointers (runLength 0) anywhere between them.              *)
(***************************************************************************)
MaxFindEntries == 3
MaxFindID == 5
MaxRun == 2

FindEntries == { Entry(tileID, tileID, 1, runLength) :
                     tileID \in 0..MaxFindID, runLength \in 0..MaxRun }

\* the first tile ID behind the last entry of a directory
EndOf(dir) ==
    IF dir = << >> THEN 0
    ELSE LET last == dir[Len(dir)]
         IN last.tileID + (IF last.runLength = 0 THEN 1 ELSE last.runLength)

RECURSIVE DirsOfLen(_)
DirsOfLen(n) ==
    IF n = 0 THEN { << >> }
    ELSE { Append(p[1], p[2]) :
               p \in { q \in DirsOfLen(n - 1) \X FindEntries : q[2].tileID >= EndOf(q[1]) } }

FindDirs == UNION { DirsOfLen(n) : n \in 0..MaxFindEntries }

\* findTile(entries, tileID), once per behaviour: the function keeps no state
CallFindTile(entries, tileID) ==
    /\ libCall.fn = "none"
    /\ libCall' = LibCall("findTile", << entries, tileID >>, findTile(entries, tileID))
    /\ UNCHANGED << wvars, readerVars >>

NextFind == \E entries \in FindDirs, tileID \in 0..(MaxFindID + MaxRun) :
                CallFindTile(entries, tileID)

SpecFind == Init /\ [][NextFind]_vars

\* the entries whose run holds the tile ID, and the entries at or below it
RunsHolding(dir, tileID) ==
    { i \in DOMAIN dir : /\ dir[i].runLength >= 1
                         /\ dir[i].tileID <= tileID
                         /\ tileID < dir[i].tileID + dir[i].runLength }
AtOrBelow(dir, tileID) == { i \in DOMAIN dir : dir[i].tileID <= tileID }
GreatestAtOrBelow(dir, tileID) ==
    CHOOSE i \in AtOrBelow(dir, tileID) :
        \A j \in AtOrBelow(dir, tileID) : dir[j].tileID <= dir[i].tileID

\* the answer by the runs: 1-based index, 0 for null
FoundByRuns(dir, tileID) ==
    IF RunsHolding(dir, tileID) # {} THEN CHOOSE i \in RunsHolding(dir, tileID) : TRUE
    ELSE IF AtOrBelow(dir, tileID) = {} THEN 0
    ELSE IF dir[GreatestAtOrBelow(dir, tileID)].runLength = 0
         THEN GreatestAtOrBelow(dir, tileID)
    ELSE 0

\* C27: over a directory with strictly ascending tile IDs and runs that do
\* not overlap, findTile returns the entry whose run holds the tile ID, else
\* the leaf pointer that is the last entry at or below the tile ID, else null
C27_FindTileByRuns ==
    libCall.fn = "findTile" =>
        libCall.result = FoundByRuns(libCall.args[1], libCall.args[2])

\* a leaf pointer below the tile ID is returned from a directory that also
\* holds tile entries
C27_Witness ==
    /\ libCall.fn = "findTile"
    /\ libCall.result > 1
    /\ libCall.args[1][libCall.result].runLength = 0
    /\ libCall.args[1][libCall.result].tileID < libCall.args[2]
    /\ libCall.args[1][1].runLength = MaxRun


(***************************************************************************)
(* writeVarint and readVarint alone: values are written one after another  *)
(* into one buffer and read back from position 0.  A value is held as the  *)
(* words of its 64 bits: low28 and top make the low word, high is the high *)
(* word below 2^31 (values below 2^63).                                    *)
(***************************************************************************)
MaxVarints == 2

VarintValue(low28, top, high) == [low28 |-> low28, top |-> top, high |-> high]

\* the values around the lengths of one to four bytes, and values with bits
\* from 28 on: 839483929049384 is high 195457, top 9, low28 90356008
VarintValues ==
    { VarintValue(low28, 0, 0) :
          low28 \in {0, 1, 127, 128, 16383, 16384, 2097151, 2097152, 268435455} }
    \cup { VarintValue(90356008, 9, 195457) }
    \cup { VarintValue(low28, top, high) :
               low28 \in {0, 268435455},
               top \in {8, 15},
               high \in {0, 7, 8, 1023, 1024, 131071, 131072,
                         16777215, 16777216, 2147483647} }

\* writeVarint(vals[1], bufPos); ... writeVarint(vals[n], bufPos): the bytes
\* and bufPos.pos after each write
RECURSIVE WriteVarints(_, _)
WriteVarints(vals, n) ==
    IF n = 0 THEN [bytes |-> << >>, ends |-> << >>]
    ELSE LET before == WriteVarints(vals, n - 1)
             bytes == before.bytes
                      \o WriteVarintWords(vals[n].low28, vals[n].top, vals[n].high)
         IN [bytes |-> bytes, ends |-> Append(before.ends, Len(bytes))]

\* readVarint(bufPos) n times from position 0: what each call returned and
\* bufPos.pos after it
RECURSIVE ReadVarintsBack(_, _)
ReadVarintsBack(buf, n) ==
    IF n = 0 THEN << >>
    ELSE LET before == ReadVarintsBack(buf, n - 1)
             pos == IF n = 1 THEN 0 ELSE before[n - 1].pos
         IN Append(before, ReadVarintWords(buf, pos))

VarintsWrittenAndRead(vals, written) ==
    [bytes |-> written.bytes, ends |-> written.ends,
     reads |-> ReadVarintsBack(written.bytes, Len(vals))]

CallVarints(vals) ==
    /\ libCall' = LibCall("varint", vals,
                          VarintsWrittenAndRead(vals, WriteVarints(vals, Len(vals))))
    /\ UNCHANGED << wvars, readerVars >>

\* one run of writes and reads per behaviour: the functions keep no state
NextVarint ==
    /\ libCall.fn = "none"
    /\ \E n \in 1..MaxVarints : \E vals \in [1..n -> VarintValues] : CallVarints(vals)

SpecVarint == Init /\ [][NextVarint]_vars

\* C28: every value written by writeVarint is returned by readVarint, the
\* read position ends where the write ended, an encoding takes at most 10
\* bytes, and values written one after another are read back in order
C28_VarintRoundTrip ==
    libCall.fn = "varint" =>
        \A i \in DOMAIN libCall.args :
            /\ libCall.result.reads[i].ok
            /\ libCall.result.reads[i].low28 = libCall.args[i].low28
            /\ libCall.result.reads[i].top = libCall.args[i].top
            /\ libCall.result.reads[i].high = libCall.args[i].high
            /\ libCall.result.reads[i].pos = libCall.result.ends[i]
            /\ libCall.result.ends[i]
                   - (IF i = 1 THEN 0 ELSE libCall.result.ends[i - 1]) <= 10

\* 839483929049384 is written as the eight bytes of the test, a value of
\* nine bytes is written behind it, and both are read back
C28_Witness ==
    /\ libCall.fn = "varint"
    /\ Len(libCall.args) = 2
    /\ libCall.args[1] = VarintValue(90356008, 9, 195457)
    /\ SubSeq(libCall.result.bytes, 1, 8) = << 168, 242, 138, 171, 153, 240, 190, 1 >>
    /\ libCall.args[2] = VarintValue(268435455, 15, 2147483647)
    /\ libCall.result.ends = << 8, 17 >>
    /\ libCall.result.reads[2].high = 2147483647


(***************************************************************************)
(* zxyToTileID and tileIDToZxy alone.  Every tile of the zooms up to       *)
(* MaxTileZoom and every tile ID below them is taken, and the corners of   *)
(* zoom 15, the last zoom whose tile IDs are within the model checker's    *)
(* integers.                                                               *)
(***************************************************************************)
MaxTileZoom == 4

\* the number of tiles of the zooms below zoom
RECURSIVE TilesBelow(_)
TilesBelow(zoom) == IF zoom = 0 THEN 0 ELSE TilesBelow(zoom - 1) + Pow2(2 * (zoom - 1))

DeepZoom == Len(tzValues) - 1

TileCoords ==
    { c \in (0..MaxTileZoom) \X (0..(Pow2(MaxTileZoom) - 1)) \X (0..(Pow2(MaxTileZoom) - 1)) :
          c[2] < Pow2(c[1]) /\ c[3] < Pow2(c[1]) }
    \cup { << DeepZoom, x, y >> : x \in {0, 1, Pow2(DeepZoom) - 1},
                                  y \in {0, 21845, Pow2(DeepZoom) - 1} }

TileIDInputs ==
    0..(TilesBelow(MaxTileZoom + 1) - 1)
    \cup { TilesBelow(DeepZoom) - 1, TilesBelow(DeepZoom), TilesBelow(DeepZoom) + 715827882,
           TilesBelow(DeepZoom + 1) - 1 }

\* tileIDToZxy(zxyToTileID(zoom, x, y))
TileThereAndBack(t) ==
    [id |-> t, back |-> IF t.ok THEN tileIDToZxy(t.id) ELSE << >>]

\* zxyToTileID(...tileIDToZxy(i))
IDThereAndBack(zxy) ==
    [zxy |-> zxy, back |-> zxyToTileID(zxy[1], zxy[2], zxy[3])]

CallZxyToTileID(zoom, x, y) ==
    /\ libCall.fn = "none"
    /\ libCall' = LibCall("zxyToTileID", << zoom, x, y >>,
                          TileThereAndBack(zxyToTileID(zoom, x, y)))
    /\ UNCHANGED << wvars, readerVars >>

CallTileIDToZxy(i) ==
    /\ libCall.fn = "none"
    /\ libCall' = LibCall("tileIDToZxy", << i >>, IDThereAndBack(tileIDToZxy(i)))
    /\ UNCHANGED << wvars, readerVars >>

NextTileID ==
    \/ \E c \in TileCoords : CallZxyToTileID(c[1], c[2], c[3])
    \/ \E i \in TileIDInputs : CallTileIDToZxy(i)

SpecTileID == Init /\ [][NextTileID]_vars

\* the tile IDs of a zoom: from the number of tiles below it, as many as the
\* zoom has tiles
InZoomRange(i, zoom) == TilesBelow(zoom) <= i /\ i < TilesBelow(zoom + 1)

\* C29: tileIDToZxy(zxyToTileID(z, x, y)) is (z, x, y), zxyToTileID of
\* tileIDToZxy(i) is i, and the tile IDs of zoom z are the IDs from the sum
\* of 4^k over k < z up to, not including, the sum over k <= z (zooms 0..15)
C29_TileIDBijection ==
    /\ libCall.fn = "zxyToTileID" =>
           /\ libCall.result.id.ok
           /\ libCall.result.back = libCall.args
           /\ InZoomRange(libCall.result.id.id, libCall.args[1])
    /\ libCall.fn = "tileIDToZxy" =>
           /\ libCall.result.back.ok
           /\ libCall.result.back.id = libCall.args[1]
           /\ InZoomRange(libCall.args[1], libCall.result.zxy[1])

\* the last tile ID of zoom 15 is taken to a tile of zoom 15 and back
C29_Witness ==
    /\ libCall.fn = "tileIDToZxy"
    /\ libCall.args[1] = TilesBelow(DeepZoom + 1) - 1
    /\ libCall.result.zxy[1] = DeepZoom
    /\ libCall.result.back.id = libCall.args[1]


(***************************************************************************)
(* serializeDir and deserializeDir alone, with the identity compressor:    *)
(* entry lists with non-decreasing tile IDs, offsets that follow the       *)
(* previous entry or not, and an offset whose varint takes five bytes.     *)
(***************************************************************************)
MaxDirEntries == 2

DirEntryInputs ==
    { Entry(tileID, at, length, runLength) :
          tileID \in {0, 1, 200}, at \in {0, 5, 127, 268435455},
          length \in {0, 5}, runLength \in {0, 1, 3} }

RECURSIVE EntryListsOfLen(_)
EntryListsOfLen(n) ==
    IF n = 0 THEN { << >> }
    ELSE { Append(p[1], p[2]) :
               p \in { q \in EntryListsOfLen(n - 1) \X DirEntryInputs :
                           q[1] = << >> \/ q[1][Len(q[1])].tileID <= q[2].tileID } }

\* deserializeDir(await serializeDir(entries, async (data) => data))
CallSerializeDir(entries) ==
    /\ libCall' = LibCall("serializeDir", << entries >>,
                          DeserializeDir(SerializeDir(entries)))
    /\ UNCHANGED << wvars, readerVars >>

\* one round trip per behaviour: the functions keep no state
NextDir ==
    /\ libCall.fn = "none"
    /\ \E n \in 0..MaxDirEntries : \E entries \in EntryListsOfLen(n) :
           CallSerializeDir(entries)

SpecDir == Init /\ [][NextDir]_vars

\* C30: deserializeDir returns the entries serializeDir was given, entry by
\* entry, for every list with non-decreasing tile IDs and non-negative
\* offset, length and runLength
C30_DirectoryRoundTrip ==
    libCall.fn = "serializeDir" =>
        /\ libCall.result.ok
        /\ Len(libCall.result.entries) = Len(libCall.args[1])
        /\ \A i \in DOMAIN libCall.args[1] : libCall.result.entries[i] = libCall.args[1][i]

\* two entries of one tile ID, the second one far behind the end of the first
C30_Witness ==
    /\ libCall.fn = "serializeDir"
    /\ Len(libCall.args[1]) = 2
    /\ libCall.args[1][1] = Entry(200, 5, 5, 3)
    /\ libCall.args[1][2] = Entry(200, 268435455, 0, 0)
    /\ libCall.result.entries = libCall.args[1]


(***************************************************************************)
(* headerToBytes and bytesToHeader alone.  The 64-bit fields are held as   *)
(* words, up to 2^53 - 1; the header of the test is varied in one 64-bit   *)
(* field, one byte field and the clustered flag at a time.                 *)
(***************************************************************************)
\* the header record of 'bytesToHeader & headerToBytes'
TestHeader ==
    [specVersion |-> 1,
     rootDirectoryOffset |-> Word64(20, 0, 0),
     rootDirectoryLength |-> Word64(634, 0, 0),
     jsonMetadataOffset |-> Word64(720, 0, 0),
     jsonMetadataLength |-> Word64(7, 0, 0),
     leafDirectoryOffset |-> Word64(6, 0, 0),
     leafDirectoryLength |-> Word64(100, 0, 0),
     tileDataOffset |-> Word64(5, 0, 0),
     tileDataLength |-> Word64(4, 0, 0),
     numAddressedTiles |-> Word64(3, 0, 0),
     numTileEntries |-> Word64(2, 0, 0),
     numTileContents |-> Word64(1, 0, 0),
     clustered |-> TRUE,
     internalCompression |-> CompressionNone,
     tileCompression |-> CompressionZstd,
     tileType |-> TileTypePbf,
     minZoom |-> 1,
     maxZoom |-> 10]

\* the wire offsets of the 64-bit fields and of the byte fields
Uint64FieldAt ==
    [rootDirectoryOffset |-> 8, rootDirectoryLength |-> 16, jsonMetadataOffset |-> 24,
     jsonMetadataLength |-> 32, leafDirectoryOffset |-> 40, leafDirectoryLength |-> 48,
     tileDataOffset |-> 56, tileDataLength |-> 64, numAddressedTiles |-> 72,
     numTileEntries |-> 80, numTileContents |-> 88]
Uint8FieldAt ==
    [specVersion |-> 7, internalCompression |-> 97, tileCompression |-> 98,
     tileType |-> 99, minZoom |-> 100, maxZoom |-> 101]

\* 0, 2^31, 2^32 - 1, 2^32, 1234567890 + 2^32 and 2^53 - 1
Uint64Inputs ==
    { Word64(0, 0, 0), Word64(0, 8, 0), Word64(268435455, 15, 0), Word64(0, 0, 1),
      Word64(161084114, 4, 1), Word64(268435455, 15, 2097151) }
Uint8Inputs == { 0, 128, 255 }

PlanarHeaders ==
    { [TestHeader EXCEPT ![f] = v, ![g] = b, !.clustered = c] :
          f \in DOMAIN Uint64FieldAt, v \in Uint64Inputs,
          g \in DOMAIN Uint8FieldAt, b \in Uint8Inputs, c \in BOOLEAN }

HeaderThereAndBack(bytes) ==
    [bytes |-> bytes, back |-> HeaderOfBytes(bytes, getUint64Words)]

\* bytesToHeader(headerToBytes(header))
CallHeaderToBytes(header) ==
    /\ libCall' = LibCall("headerToBytes", << header >>,
                          HeaderThereAndBack(HeaderBytes(header, setUint64Words)))
    /\ UNCHANGED << wvars, readerVars >>

\* one round trip per behaviour: the functions keep no state
NextHeader ==
    /\ libCall.fn = "none"
    /\ \E header \in PlanarHeaders : CallHeaderToBytes(header)

SpecHeader == Init /\ [][NextHeader]_vars

\* the eight bytes at a 0-based offset
BytesAt(bytes, at) == SubSeq(bytes, at + 1, at + 8)

\* the eight bytes of a 64-bit value, little endian, by division: the number
\* high * 2^32 + top * 2^28 + low28 in base 256
LittleEndian(w) ==
    << w.low28 % 256, (w.low28 \div 256) % 256, (w.low28 \div 65536) % 256,
       w.low28 \div 16777216 + 16 * w.top,
       w.high % 256, (w.high \div 256) % 256, (w.high \div 65536) % 256,
       w.high \div 16777216 >>

\* C31: headerToBytes gives 127 bytes that start with "PM" and hold every
\* field at its offset, the 64-bit fields little endian, and bytesToHeader
\* returns every wire field of the header unchanged (64-bit fields below
\* 2^53, byte fields below 256)
C31_PlanarHeaderRoundTrip ==
    libCall.fn = "headerToBytes" =>
        LET header == libCall.args[1]
            bytes == libCall.result.bytes
        IN /\ Len(bytes) = HEADER_SIZE_BYTES
           /\ SubSeq(bytes, 1, 2) = << 80, 77 >>
           /\ \A f \in DOMAIN Uint64FieldAt :
                  BytesAt(bytes, Uint64FieldAt[f]) = LittleEndian(header[f])
           /\ \A g \in DOMAIN Uint8FieldAt : bytes[Uint8FieldAt[g] + 1] = header[g]
           /\ bytes[97] = (IF header.clustered THEN 1 ELSE 0)
           /\ libCall.result.back = header

\* a header with tileDataLength 2^53 - 1 and maxZoom 255 is returned unchanged
C31_Witness ==
    /\ libCall.fn = "headerToBytes"
    /\ libCall.args[1].tileDataLength = Word64(268435455, 15, 2097151)
    /\ libCall.args[1].maxZoom = 255
    /\ ~libCall.args[1].clustered
    /\ BytesAt(libCall.result.bytes, 64) = << 255, 255, 255, 255, 255, 255, 31, 0 >>
    /\ libCall.result.back = libCall.args[1]


(***************************************************************************)
(* s2HeaderToBytes and s2BytesToHeader alone: the header of the test with  *)
(* the twenty fields of faces 1..5, varied in one of them, in specVersion  *)
(* (1, or the 3 of the writer's header record) and in the clustered flag.  *)
(***************************************************************************)
S2FieldAt ==
    [rootDirectoryOffset1 |-> 102, rootDirectoryLength1 |-> 110,
     rootDirectoryOffset2 |-> 118, rootDirectoryLength2 |-> 126,
     rootDirectoryOffset3 |-> 134, rootDirectoryLength3 |-> 142,
     rootDirectoryOffset4 |-> 150, rootDirectoryLength4 |-> 158,
     rootDirectoryOffset5 |-> 166, rootDirectoryLength5 |-> 174,
     leafDirectoryOffset1 |-> 182, leafDirectoryLength1 |-> 190,
     leafDirectoryOffset2 |-> 198, leafDirectoryLength2 |-> 206,
     leafDirectoryOffset3 |-> 214, leafDirectoryLength3 |-> 222,
     leafDirectoryOffset4 |-> 230, leafDirectoryLength4 |-> 238,
     leafDirectoryOffset5 |-> 246, leafDirectoryLength5 |-> 254]

\* every field of faces 1..5 holds its own wire offset
TestS2Header == TestHeader @@ [f \in DOMAIN S2FieldAt |-> Word64(S2FieldAt[f], 0, 0)]

S2SpecVersions == { 1, 3 }

CubicHeaders ==
    { [TestS2Header EXCEPT ![f] = v, !.specVersion = version, !.clustered = c] :
          f \in DOMAIN S2FieldAt, v \in Uint64Inputs,
          version \in S2SpecVersions, c \in BOOLEAN }

S2HeaderThereAndBack(bytes) ==
    [bytes |-> bytes, back |-> S2HeaderOfBytes(bytes, getUint64Words)]

\* s2BytesToHeader(s2HeaderToBytes(header))
CallS2HeaderToBytes(header) ==
    /\ libCall' = LibCall("s2HeaderToBytes", << header >>,
                          S2HeaderThereAndBack(S2HeaderBytes(header, setUint64Words)))
    /\ UNCHANGED << wvars, readerVars >>

\* one round trip per behaviour: the functions keep no state
NextS2Header ==
    /\ libCall.fn = "none"
    /\ \E header \in CubicHeaders : CallS2HeaderToBytes(header)

SpecS2Header == Init /\ [][NextS2Header]_vars

\* C32: s2HeaderToBytes gives 262 bytes and s2BytesToHeader returns every
\* field of the header unchanged, specVersion and the pairs of faces 1..5
\* included
C32_CubicHeaderRoundTrip ==
    libCall.fn = "s2HeaderToBytes" =>
        /\ Len(libCall.result.bytes) = S2_HEADER_SIZE_BYTES
        /\ libCall.result.back = libCall.args[1]

\* C32: s2HeaderToBytes gives 262 bytes that start with "S2", and
\* s2BytesToHeader returns every field of the header unchanged, the pairs of
\* faces 1..5 included, but for specVersion, which is returned as 1 whatever
\* the header holds
C32_CubicHeaderRoundTripButVersion ==
    libCall.fn = "s2HeaderToBytes" =>
        /\ Len(libCall.result.bytes) = S2_HEADER_SIZE_BYTES
        /\ SubSeq(libCall.result.bytes, 1, 2) = << 83, 50 >>
        /\ \A f \in DOMAIN S2FieldAt :
               BytesAt(libCall.result.bytes, S2FieldAt[f]) = LittleEndian(libCall.args[1][f])
        /\ libCall.result.back = [libCall.args[1] EXCEPT !.specVersion = 1]

\* the header record of the writer, with specVersion 3 and a leaf offset of
\* 2^53 - 1, is returned with specVersion 1
C32_Witness ==
    /\ libCall.fn = "s2HeaderToBytes"
    /\ libCall.args[1].specVersion = 3
    /\ libCall.args[1].leafDirectoryOffset5 = Word64(268435455, 15, 2097151)
    /\ libCall.result.back.specVersion = 1
    /\ libCall.result.back.leafDirectoryOffset5 = libCall.args[1].leafDirectoryOffset5


\* the tile of (0, 0, 0) is in every archive of WrittenArchives, under the
\* planar root and, in the cubic archive, under the root of face 0
AsksWrittenTile(call) ==
    /\ call.zoom = 0 /\ call.x = 0 /\ call.y = 0
    /\ \/ call.kind = "getTile"
       \/ call.kind = "getTileS2" /\ call.face = 0 /\ IsS2(archive)

\* C33: over any interleaving of getHeader, getMetadata, getTile and
\* getTileS2 on one reader, the metadata and the root directory are stored
\* whenever the header is, no call returns undefined for a tile the archive
\* holds, and getMetadata does not return an unset value
C33_HeaderImpliesRoot ==
    /\ rheader # UndefinedHeader => rootDir # << >> /\ metadata # Undefined
    /\ \A c \in Slots :
           rcalls[c].pc = "done" =>
               /\ rcalls[c].kind = "getMetadata" => rcalls[c].result.value # Undefined
               /\ AsksWrittenTile(rcalls[c]) => rcalls[c].result.kind = "tile"

\* two calls that overlapped have both returned: the first one loaded the
\* prelude, the second one found the header stored
C33_Witness ==
    /\ \A c \in Slots : rcalls[c].pc = "done"
    /\ Len(rcalls[1].ranges) > 0
    /\ rcalls[1].ranges[1] = << 0, S2_ROOT_SIZE >>
    /\ rcalls[2].kind = "getTile"
    /\ rcalls[2].ranges = << >>


(***************************************************************************)
(* A reader over a prelude whose header parses and whose load fails after  *)
(* it: the metadata cannot be decompressed, is no JSON, or the root cannot *)
(* be decompressed.  Every call is awaited.                                *)
(***************************************************************************)
\* the sink after one awaited write of tile (0, 0, 0) by a writer built with
\* Compression.Gzip and an awaited commit of empty metadata
GzipArchive(face) ==
    commit(RunWrite(BeginWriteTileZXY(NewWriter(CompressionGzip), 1, face, 0, 0, 0,
                                      BFill(1, 7)), 1), 0).buffer

\* the header the reader parses out of the bytes
ParsedHeader(bytes) ==
    IF IsS2(bytes) THEN s2BytesToHeader(BToSeq(BSlice(bytes, 0, S2_HEADER_SIZE_BYTES)))
    ELSE bytesToHeader(BToSeq(BSlice(bytes, 0, S2_HEADER_SIZE_BYTES)))

\* internalCompression (byte 97) names a compression decompress throws for
UnsupportedInternal(bytes) == BufferWrite(bytes, BFill(1, CompressionBrotli), 97)

\* the first byte of the metadata is overwritten: the text is no JSON (plain
\* archive) or no gzip stream (gzip archive)
BrokenMetadata(bytes) ==
    BufferWrite(bytes, BFill(1, 120), ParsedHeader(bytes).jsonMetadataOffset)

\* the first byte of the root of face 0 is overwritten
BrokenRoot(bytes) ==
    BufferWrite(bytes, BFill(1, 120), ParsedHeader(bytes).rootDirectoryOffset)

FailingArchives ==
    { UnsupportedInternal(bytes) : bytes \in WrittenArchives }
        \cup { BrokenMetadata(bytes) : bytes \in WrittenArchives }
        \cup { BrokenMetadata(GzipArchive(face)) : face \in {Undefined, 0} }
        \cup { BrokenRoot(GzipArchive(face)) : face \in {Undefined, 0} }

InitFailing ==
    /\ SetWriterInit(NewWriter(CompressionNone))
    /\ \E bytes \in FailingArchives : SetReaderInit(NewReader(bytes, DEFAULT_MAX_SIZE))

NextFailing ==
    \/ GetHeader
    \/ GetMetadata
    \/ \E c \in Coords : GetTile(c[1], c[2], c[3])
    \/ \E face \in FacesIn, c \in Coords : GetTileS2(face, c[1], c[2], c[3])

SpecFailing == InitFailing /\ [][NextFailing]_vars

\* the call asked for the prelude before anything else
RepeatedLoad(call) ==
    /\ call.ranges # << >>
    /\ call.ranges[1] = << 0, S2_ROOT_SIZE >>

\* C34: a failed prelude load does not leave the reader half-initialized.
\* Over a prelude whose load fails after the header is parsed, a call that
\* returns a value has repeated the load, getTile and getTileS2 do not
\* return undefined for the tile the archive holds, and getMetadata does not
\* return an unset value.
C34_FailedLoadNotKept ==
    LastRead.pc = "done" =>
        /\ RepeatedLoad(LastRead)
        /\ LastRead.kind = "getMetadata" => LastRead.result.value # Undefined
        /\ AsksWrittenTile(LastRead) => LastRead.result.kind = "tile"

\* the first load has failed with the header stored and a later call has
\* ended
C34_Witness ==
    /\ rheader # UndefinedHeader
    /\ rootDir = << >>
    /\ preludeRequests = 1
    /\ ReadReturned
    /\ LastRead.ranges = << >>


(***************************************************************************)
(* optimizeDirectories on its own, one round of its loop per step.  The    *)
(* entry lists are runs of one-byte tiles as awaited writes leave them;    *)
(* the target is the root budget of a commit whose metadata is a JSON      *)
(* string of m letters.                                                    *)
(***************************************************************************)
MaxRounds == 3      \* the doublings of the leaf size that are told apart

\* the entries of n one-byte tiles with the tile IDs 0 .. n - 1
TileRun(n) == [i \in 1..n |-> Entry(i - 1, i - 1, 1, 1)]

\* [n, m, compression]: the list TileRun(n) under the budget left by a
\* metadata string of m letters.  The short lists meet every budget around
\* the smallest roots; 4100 entries do not fit the budget of empty metadata
\* and make two leaves of 4096, 8193 entries make three.
PlanInputs ==
    { << n, m, c >> : n \in 0..3, m \in {0, 98100} \cup (16105..16121),
                      c \in {CompressionNone, CompressionGzip} }
        \cup { << 4100, 0, CompressionNone >>, << 4100, 16112, CompressionNone >>,
               << 4100, 16115, CompressionNone >>, << 8193, 0, CompressionNone >> }

PlanResult(pc, leafSize, rounds, rootBytes, leavesBytes, numLeaves, builds) ==
    [pc |-> pc, leafSize |-> leafSize, rounds |-> rounds, rootBytes |-> rootBytes,
     leavesBytes |-> leavesBytes, numLeaves |-> numLeaves, builds |-> builds,
     spin |-> 0]

\* what await buildRootsLeaves(entries, leafSize, compression) resolves to in
\* the rounds of the loop, first round first: a build depends on the
\* arguments alone, so the builds are known once the call is made
RoundBuilds(entries, tag) ==
    [r \in 1..(MaxRounds + 1) |->
        buildRootsLeaves(entries, INITIAL_LEAF_SIZE * Pow2(r - 1), tag)]

\* optimizeDirectories(entries, targetRootLength, compression) up to the
\* loop: the whole list is tried as the root
CallOptimizeDirectories(entries, targetRootLength, tag) ==
    LET testBytes == CompressedDir(entries, tag).data
    IN /\ libCall' = LibCall("optimizeDirectories", << entries, targetRootLength, tag >>,
                             IF BLen(testBytes) < targetRootLength
                             THEN PlanResult("returned", 0, 0, testBytes, BEmpty, 0, << >>)
                             ELSE PlanResult("loop", INITIAL_LEAF_SIZE, 0, BEmpty, BEmpty, 0,
                                             RoundBuilds(entries, tag)))
       /\ UNCHANGED << wvars, readerVars >>

\* one round of while (true): build, return the build or double the leaf size.
\* The loop has no bound.  After MaxRounds doublings the leaf size holds the
\* whole list, so every further build is the build of this leaf size: the
\* leaf size then stands for itself and every larger one, and spin tells a
\* round from the next.
OptimizeRound ==
    /\ libCall.fn = "optimizeDirectories"
    /\ libCall.result.pc = "loop"
    /\ \/ libCall.result.rounds < MaxRounds
       \/ libCall.result.leafSize >= Len(libCall.args[1])
    /\ libCall' =
           [libCall EXCEPT !.result =
               IF BLen(@.builds[@.rounds + 1].rootBytes) < libCall.args[2]
               THEN PlanResult("returned", @.leafSize, @.rounds,
                               @.builds[@.rounds + 1].rootBytes,
                               @.builds[@.rounds + 1].leavesBytes,
                               @.builds[@.rounds + 1].numLeaves, << >>)
               ELSE IF @.rounds < MaxRounds
                    THEN [@ EXCEPT !.leafSize = @ * 2, !.rounds = @ + 1]
                    ELSE [@ EXCEPT !.spin = 1 - @]]
    /\ UNCHANGED << wvars, readerVars >>

NextOptimize ==
    \/ /\ libCall.fn = "none"
       /\ \E p \in PlanInputs :
              CallOptimizeDirectories(TileRun(p[1]),
                                      RootTarget(compress(JsonStringify(p[2]), p[3]).data),
                                      p[3])
    \/ OptimizeRound

SpecOptimize == Init /\ [][NextOptimize]_vars

\* every await of the loop resolves: a round that can be taken is taken
SpecOptimizeFair == SpecOptimize /\ WF_vars(OptimizeRound)

OptimizeReturned ==
    /\ libCall.fn = "optimizeDirectories"
    /\ libCall.result.pc = "returned"

\* the loop is left alone only once a build whose single leaf held every
\* entry has failed: every further round builds the same and fails again
LoopsForever ==
    /\ libCall.fn = "optimizeDirectories"
    /\ libCall.result.pc = "loop"
    /\ libCall.result.rounds > 0
    /\ libCall.result.leafSize \div 2 >= Len(libCall.args[1])

\* C35: commit terminates.  For every entry list and every size of the
\* compressed metadata, optimizeDirectories leaves its doubling loop after
\* finitely many rounds with a root shorter than the target.
C35_CommitTerminates ==
    libCall.fn = "optimizeDirectories"
        ~> (OptimizeReturned /\ BLen(libCall.result.rootBytes) < libCall.args[2])

\* the loop has doubled the leaf size past the length of the list and the
\* root is still not below the target
C35_Witness ==
    /\ LoopsForever
    /\ libCall.result.rounds = MaxRounds
    /\ libCall.result.spin = 1


\* the i-th span of size entries, i from 1, and its serialized directory
PlanChunk(entries, size, i) ==
    SubSeq(entries, (i - 1) * size + 1, Min(i * size, Len(entries)))

PlanLeaf(entries, size, tag, i) == CompressedDir(PlanChunk(entries, size, i), tag).data

\* the bytes of the leaves before the i-th one
RECURSIVE LeavesBefore(_, _, _, _)
LeavesBefore(entries, size, tag, i) ==
    IF i = 1 THEN 0
    ELSE LeavesBefore(entries, size, tag, i - 1) + BLen(PlanLeaf(entries, size, tag, i - 1))

\* the root and the leaf block are the partition of the entries into spans
\* of size entries
PartitionedBy(entries, size, tag, res) ==
    LET k == (Len(entries) + size - 1) \div size
        root == DeserializeDir(BToSeq(decompress(res.rootBytes, tag).data))
    IN /\ root.ok
       /\ Len(root.entries) = k
       /\ res.numLeaves = k
       /\ BLen(res.leavesBytes) = LeavesBefore(entries, size, tag, k + 1)
       /\ \A i \in 1..k :
              /\ root.entries[i] =
                     Entry(PlanChunk(entries, size, i)[1].tileID,
                           LeavesBefore(entries, size, tag, i),
                           BLen(PlanLeaf(entries, size, tag, i)), 0)
              /\ BSlice(res.leavesBytes, root.entries[i].offset,
                        root.entries[i].offset + root.entries[i].length)
                     = PlanLeaf(entries, size, tag, i)

\* C36: directory partition.  When the serialized list is shorter than the
\* target the root is that list and there are no leaves; otherwise the leaf
\* size is 4096 doubled some times, the leaves are the consecutive spans of
\* that many entries in entry order, and root entry i has runLength 0, the
\* first tile ID of span i, the total length of the leaves before it as its
\* offset and the length of leaf i.
C36_DirectoryPartition ==
    OptimizeReturned =>
        IF BLen(CompressedDir(libCall.args[1], libCall.args[3]).data) < libCall.args[2]
        THEN /\ libCall.result.rootBytes = CompressedDir(libCall.args[1], libCall.args[3]).data
             /\ libCall.result.leavesBytes = BEmpty
             /\ libCall.result.numLeaves = 0
        ELSE /\ \E j \in 0..MaxRounds :
                    libCall.result.leafSize = INITIAL_LEAF_SIZE * Pow2(j)
             /\ PartitionedBy(libCall.args[1], libCall.result.leafSize, libCall.args[3],
                              libCall.result)

\* 8193 entries were split into three leaves of at most 4096 entries
C36_Witness ==
    /\ OptimizeReturned
    /\ libCall.result.leafSize = INITIAL_LEAF_SIZE
    /\ libCall.result.numLeaves = 3


\* header[`leafDirectoryOffset${face}`], face 0 without the digit
LeafOffsetOf(h, face) ==
    CASE face = 0 -> h.leafDirectoryOffset
      [] face = 1 -> h.leafDirectoryOffset1
      [] face = 2 -> h.leafDirectoryOffset2
      [] face = 3 -> h.leafDirectoryOffset3
      [] face = 4 -> h.leafDirectoryOffset4
      [] face = 5 -> h.leafDirectoryOffset5

\* the faces a committed sink holds directories for
CommittedFaces == IF IsS2(buffer) THEN Faces ELSE {0}

\* the directory the sink holds in [at, at + length)
CommittedDir(at, length) ==
    DeserializeDir(BToSeq(decompress(BSlice(buffer, at, at + length), compression).data))

CommittedRoot(face) ==
    IF face = 0
    THEN CommittedDir(wheader.rootDirectoryOffset, wheader.rootDirectoryLength)
    ELSE CommittedDir(RootOffsetOf(wheader, face), RootLengthOf(wheader, face))

\* the root of the face was made by a split: it is not the list of the face
SplitFace(face) ==
    CommittedRoot(face).entries
        # (IF IsS2(buffer) THEN s2tileEntries[face] ELSE tileEntries)

\* the leaf a root entry of the face points at, where commit appended it
CommittedLeaf(face, entry) ==
    CommittedDir(LeafOffsetOf(wheader, face) + entry.offset, entry.length)

\* the directory was decoded and holds tile entries alone
TileEntriesOnly(dir) ==
    /\ dir.ok
    /\ \A k \in DOMAIN dir.entries : dir.entries[k].runLength >= 1

\* C37: writer output never exceeds reader depth.  In every committed archive
\* the entries of a root made by a split have runLength 0 and the entries of
\* the leaves have runLength >= 1; every getTile / getTileS2 on the archive
\* ends with a tile or with undefined after at most two directories, and so
\* never with the depth-exceeded error.
C37_TwoLevelsOnly ==
    /\ wphase = "committed" =>
           \A face \in CommittedFaces :
               SplitFace(face) =>
                   \A i \in DOMAIN CommittedRoot(face).entries :
                       /\ CommittedRoot(face).entries[i].runLength = 0
                       /\ TileEntriesOnly(CommittedLeaf(face,
                                                         CommittedRoot(face).entries[i]))
    /\ \A c \in Slots :
           (rcalls[c].pc \in {"done", "failed"} /\ rcalls[c].kind \in {"getTile", "getTileS2"})
               => /\ rcalls[c].inspected <= 2
                  /\ rcalls[c].result.kind \in {"tile", "undefined"}

\* a lookup on face 1 of a cubic archive with two split faces has ended in
\* the second directory
C37_Witness ==
    /\ wphase = "committed"
    /\ IsS2(buffer)
    /\ SplitFace(0) /\ SplitFace(1)
    /\ ReadReturned
    /\ LastRead.kind = "getTileS2" /\ LastRead.face = 1
    /\ LastRead.inspected = 2


\* header[`leafDirectoryLength${face}`], face 0 without the digit
LeafLengthOf(h, face) ==
    CASE face = 0 -> h.leafDirectoryLength
      [] face = 1 -> h.leafDirectoryLength1
      [] face = 2 -> h.leafDirectoryLength2
      [] face = 3 -> h.leafDirectoryLength3
      [] face = 4 -> h.leafDirectoryLength4
      [] face = 5 -> h.leafDirectoryLength5

\* C38: header regions are disjoint.  After commit the tile data region
\* [tileDataOffset, tileDataOffset + tileDataLength) is exactly the appended
\* tile payloads, every leaf region begins at or after its end, and the leaf
\* regions of different faces do not overlap, also when there are leaves.
C38_RegionsDisjoint ==
    wphase = "committed" =>
        /\ wheader.tileDataLength = PayloadBytes(Len(accepted))
        /\ \A face \in CommittedFaces :
               LeafOffsetOf(wheader, face) >= wheader.tileDataOffset + wheader.tileDataLength
        /\ \A f, g \in CommittedFaces :
               f < g => LeafOffsetOf(wheader, f) + LeafLengthOf(wheader, f)
                            <= LeafOffsetOf(wheader, g)

\* a committed cubic archive with a leaf block for face 0 and one for face 1
C38_Witness ==
    /\ wphase = "committed"
    /\ IsS2(buffer)
    /\ LeafLengthOf(wheader, 0) > 0
    /\ LeafLengthOf(wheader, 1) > 0
    /\ LeafOffsetOf(wheader, 0) = S2_ROOT_SIZE + PayloadBytes(Len(accepted))


(***************************************************************************)
(* Awaited lookups followed await by await, over archives with several     *)
(* leaves and a reader whose cache holds one or two directories.  The      *)
(* history cacheOps lists the leaf offsets used, most recent first, cut to *)
(* the size of the cache.                                                  *)
(***************************************************************************)
LeafCacheSizes == {1, 2}

\* three leaves under one root: leaf 1 holds tile ID 1, leaf 2 tile ID 4,
\* leaf 3 the tile IDs from 5 on
FanLeaf(j) ==
    CASE j = 1 -> SerializeDir(<< Entry(1, 0, 1, 1) >>)
      [] j = 2 -> SerializeDir(<< Entry(4, 0, 1, 1) >>)
      [] j = 3 -> SerializeDir(<< Entry(5, 0, 1, 16) >>)

FanLeaves == FanLeaf(1) \o FanLeaf(2) \o FanLeaf(3)

FanRoot ==
    SerializeDir(<< Entry(0, 0, 1, 1),
                    Entry(1, 0, Len(FanLeaf(1)), 0),
                    Entry(4, Len(FanLeaf(1)), Len(FanLeaf(2)), 0),
                    Entry(5, Len(FanLeaf(1)) + Len(FanLeaf(2)), Len(FanLeaf(3)), 0) >>)

FanHeader ==
    [LinkHeader(Chain(0)) EXCEPT
        !.rootDirectoryLength = Len(FanRoot),
        !.jsonMetadataOffset = S2_HEADER_SIZE_BYTES + Len(FanRoot),
        !.leafDirectoryOffset = S2_HEADER_SIZE_BYTES + Len(FanRoot) + 2,
        !.leafDirectoryLength = Len(FanLeaves),
        !.tileDataOffset = S2_HEADER_SIZE_BYTES + Len(FanRoot) + 2 + Len(FanLeaves),
        !.maxZoom = 2]

FanBody ==
    BCat(BCat(BFromSeq(FanRoot), JsonStringify(0)), BCat(BFromSeq(FanLeaves), BFill(1, 7)))

FanArchive(s2) ==
    IF s2 THEN BCat(BFromSeq(s2HeaderToBytes(ChainS2Header(FanHeader))), FanBody)
    ELSE BCat(BFromSeq(headerToBytes(FanHeader)
                       \o Zeros(S2_HEADER_SIZE_BYTES - HEADER_SIZE_BYTES)), FanBody)

\* the fans, and the chains of two leaves a walk passes one after the other
LeafArchives ==
    { FanArchive(s2) : s2 \in BOOLEAN }
        \cup { ChainArchive(2, TileDirectory, s2) : s2 \in BOOLEAN }

\* tiles of the root and of each leaf of the fan
LeafCoords == { << 0, 0, 0 >>, << 1, 0, 0 >>, << 1, 1, 0 >>, << 2, 0, 0 >> }

InitLeafCache ==
    /\ SetWriterInit(NewWriter(CompressionNone))
    /\ \E bytes \in LeafArchives, size \in LeafCacheSizes :
           SetReaderInit(NewReader(bytes, size))

\* await reader.getTile(zoom, x, y), up to its first await
SeqGetTile(zoom, x, y) ==
    /\ NoReadInFlight
    /\ SetReader(BeginRead(Reader, 1, "getTile", -1, zoom, x, y))
    /\ UNCHANGED wvars

\* await reader.getTileS2(face, zoom, x, y), up to its first await
SeqGetTileS2(face, zoom, x, y) ==
    /\ NoReadInFlight
    /\ SetReader(BeginRead(Reader, 1, "getTileS2", face, zoom, x, y))
    /\ UNCHANGED wvars

\* the call is about to ask #dirCache for the directory at call.dO
AtLeafLookup(call) ==
    /\ call.pc = "header"
    /\ call.cont = "dir"
    /\ call.dO # rheader.rootDirectoryOffset

\* what a fresh request for the bytes of the directory decodes to
FreshDecode(call) ==
    DeserializeDir(BToSeq(decompress(getRange(archive, call.dO, call.dL),
                                     rheader.internalCompression).data))

\* the step of the call takes the directory at call.dO out of the cache, or
\* has loaded it from the archive
UsesLeaf(call) ==
    \/ AtLeafLookup(call) /\ CacheHas(dirCache, call.dO)
    \/ /\ call.pc = "dir_range"
       /\ FreshDecode(call).ok
       /\ FreshDecode(call).entries # << >>

\* key is now the most recently used of at most size keys
MostRecent(keys, key, size) ==
    LET all == << key >> \o SelectSeq(keys, LAMBDA k : k # key)
    IN SubSeq(all, 1, Min(Len(all), size))

\* the promise the call awaits resolves: the call runs up to its next await
SeqResume ==
    /\ ReadInFlight(rcalls[1])
    /\ SetReader([ReadStep(Reader, archive, 1) EXCEPT
                      !.cacheOps = IF UsesLeaf(rcalls[1])
                                   THEN MostRecent(@, rcalls[1].dO, dirCache.maxSize)
                                   ELSE @])
    /\ UNCHANGED wvars

NextLeafCache ==
    \/ \E c \in LeafCoords : SeqGetTile(c[1], c[2], c[3])
    \/ \E c \in LeafCoords : SeqGetTileS2(0, c[1], c[2], c[3])
    \/ SeqResume

SpecLeafCache == InitLeafCache /\ [][NextLeafCache]_vars

\* the offset is among the most recently used leaf offsets
RecentlyUsed(o) == \E i \in DOMAIN cacheOps : cacheOps[i] = o

\* C39: leaf directories are served from the cache.  In awaited lookups,
\* when a walk comes to a leaf whose offset is among the N most recently
\* used ones (N the size of the cache), the directory is in the cache with
\* the entries a fresh decode of the archive bytes gives, and the step issues
\* no range request for it: the call goes on without a request or with the
\* request of the tile payload.
C39_LeafFromCache ==
    [][(AtLeafLookup(rcalls[1]) /\ RecentlyUsed(rcalls[1].dO)) =>
           /\ CacheHas(dirCache, rcalls[1].dO)
           /\ dirCache.map[rcalls[1].dO] = FreshDecode(rcalls[1]).entries
           /\ rcalls'[1].pc # "dir_range"
           /\ \A i \in DOMAIN rcalls'[1].ranges :
                  rcalls'[1].ranges[i][1] # rcalls[1].dO]_vars

\* a lookup through a leaf used before has returned the tile after a single
\* range request, the one for the payload
C39_Witness ==
    /\ rcalls[1].pc = "done"
    /\ rcalls[1].result.kind = "tile"
    /\ rcalls[1].inspected = 2
    /\ Len(rcalls[1].ranges) = 1
    /\ rcalls[1].ranges[1][1] = rheader.tileDataOffset

=============================================================================
